---- MODULE Spec2Model ----
(***************************************************************************)
(* Model of torch/jit/_recursive.py: structural type inference over        *)
(* nn.Module trees, the ConcreteTypeStore that shares JIT types between    *)
(* structurally equal modules, and the recursive construction of           *)
(* RecursiveScriptModules with one-time method compilation per type.       *)
(***************************************************************************)
EXTENDS Integers, Sequences, FiniteSets, TLC

VARIABLES
    types,              \* heap of materialized ConcreteModuleTypes, index = identity
    type_store,         \* ConcreteTypeStore.type_store: class -> list of type ids
    methods_compiled,   \* ConcreteTypeStore.methods_compiled: set of type ids
    submitted,          \* per type id: _create_methods batches submitted (all, ok)
    jit_methods,        \* per type id: method names defined on its JIT type
    jit_count,          \* number of JIT types allocated by the backend so far
    constants,          \* per component: current contents of its __constants__ set
    overloads,          \* per component: its __overloads__ attribute (present?, map)
    resolved,           \* per component: last general-path resolve (raw type, result)
    trace,              \* events of the most recent top-level call, in order
    warned,             \* warnings emitted by the most recent top-level call
    ret,                \* outcome of the most recent top-level call
    calls,              \* number of top-level calls made so far
    roots,              \* per instance, the calls of infer_methods_to_compile that returned and the stub names of the last
    limit,              \* recursion limit the most recent top-level call ran under
    instances,          \* the nn.Module instances: their attributes and containers
    out,                \* what infer_raw_concrete_type returned or raised on "G"
    threads             \* per thread: its position in get_or_create_concrete_type

vars == <<types, type_store, methods_compiled, submitted, jit_methods, jit_count, constants,
          overloads, resolved, trace, warned, ret, calls, roots, limit, instances,
          out, threads>>

\* Bounds of the exploration.
MaxCalls == 2
MaxDepth == 4

---------------------------------------------------------------------------
\* Generic helpers

NoMap == [x \in {} |-> 0]

Range(s) == {s[i] : i \in DOMAIN s}

Keys(pairs) == {pairs[i][1] : i \in DOMAIN pairs}

RECURSIVE SeqOfSet(_, _)
\* The names of `set` in the order of the sorted name list `order`.
SeqOfSet(order, set) ==
    IF order = <<>> THEN <<>>
    ELSE IF Head(order) \in set
         THEN <<Head(order)>> \o SeqOfSet(Tail(order), set)
         ELSE SeqOfSet(Tail(order), set)

---------------------------------------------------------------------------
\* Python values held by attributes

V(tag) == [tag |-> tag, items |-> <<>>]

VList(items) == [tag |-> "list", items |-> items]

\* _constant_types: bool, float, int, str, NoneType, FunctionType, device, layout, dtype
_constant_types == {"bool", "float", "int", "str", "NoneType", "function",
                    "device", "layout", "dtype"}

\* names never compiled
blacklist == {"_version", "_parameters", "_buffers", "_modules", "_initializing",
              "_backward_hooks", "_forward_hooks", "_forward_pre_hooks",
              "_state_dict_hooks", "_load_state_dict_pre_hooks", "dump_patches"}

\* the names n of the universe with n.startswith("__")
DunderNames == {"__constants__", "__overloads__", "__annotations__", "__dict__"}

\* every attribute name of the universe, in sorted order (the order of dir())
NameOrder == <<"0", "1", "2", "__annotations__", "__constants__", "__dict__",
               "__overloads__", "_buffers", "_initializing", "_modules",
               "_parameters", "_version",
               "act", "c0", "forward", "helper", "k", "missing",
               "n", "running", "sub", "weight">>

---------------------------------------------------------------------------
\* The runtime classes of the universe and their methods

ContainerClasses == {"ModuleList", "Sequential", "ModuleDict"}

ConstClasses == {"_ConstModuleList", "_ConstSequential", "_ConstModuleDict"}

Classes == {"Leaf", "Bad", "Net", "Fin", "Over", "Gen", "Exp", "Ign"} \cup ContainerClasses \cup ConstClasses

\* A method of a class: the attribute names its body reads from self, and its
\* TorchScript modifier ("DEFAULT", "EXPORT", "IGNORE", "UNUSED").
Method(refs, modifier) == [refs |-> refs, modifier |-> modifier]

\* Methods a class defines itself (forward listed only when it overrides
\* torch.nn.Module.forward).
Methods(cls) ==
    CASE cls = "Leaf" -> [forward |-> Method({"weight", "n"}, "DEFAULT")]
      [] cls = "Bad"  -> [forward |-> Method({"missing"}, "DEFAULT")]
      [] cls = "Net"  -> [forward |-> Method({"sub"}, "DEFAULT")]
      [] cls = "Fin"  -> [forward |-> Method({"k"}, "DEFAULT"),
                          helper  |-> Method({"k"}, "EXPORT")]
      [] cls = "Over" -> [forward |-> Method({"weight"}, "DEFAULT"),
                          helper  |-> Method({}, "IGNORE")]
      [] cls = "Exp"  -> [act     |-> Method({}, "EXPORT"),
                          forward |-> Method({}, "EXPORT"),
                          helper  |-> Method({}, "EXPORT")]
      [] cls = "Ign"  -> [forward |-> Method({}, "UNUSED"),
                          helper  |-> Method({}, "EXPORT")]
      [] OTHER -> NoMap

\* @torch.jit._overload_method declarations of a class: base name -> number of overloads
OverloadCount(cls) ==
    CASE cls = "Over" -> [forward |-> 2]
      [] OTHER -> NoMap

\* Module interface types: their declared method names (getMethodNames())
Interfaces == {"IFace"}

getMethodNames(iface) == <<"forward">>

---------------------------------------------------------------------------
\* The runtime components (nn.Module instances) of the universe

Ann(type, final, iface) == [type |-> type, final |-> final, iface |-> iface]

BaseComp ==
    [cls |-> "Leaf", init |-> TRUE,
     params |-> <<>>, buffers |-> <<>>, modules |-> <<>>,
     ann |-> NoMap, hasConstants |-> FALSE, constants0 |-> {},
     hasOverloads |-> FALSE, overloads0 |-> NoMap,
     dict |-> NoMap, props |-> NoMap]

LeafComp ==
    [BaseComp EXCEPT !.params = << <<"weight", "Tensor">> >>,
                     !.buffers = << <<"running", "None">> >>,
                     !.dict = [n |-> V("int")]]

CompIds == {"L1", "L2", "L3", "L4", "U", "B", "F", "O", "P1", "P2", "PU", "PB", "PI", "ML",
            "PM", "PP", "CA", "CB", "E", "I", "G"}

\* the instances the entry points are called on
Instances(c) ==
    CASE c = "L1" -> LeafComp
      [] c = "L2" -> LeafComp
      [] c = "L4" -> LeafComp
      [] c = "L3" -> [LeafComp EXCEPT !.ann = [n |-> Ann("float", FALSE, FALSE)]]
      [] c = "U"  -> [LeafComp EXCEPT !.init = FALSE]
      [] c = "B"  -> [BaseComp EXCEPT !.cls = "Bad",
                                      !.params = << <<"missing", "None">> >>]
      [] c = "F"  -> [BaseComp EXCEPT !.cls = "Fin",
                                      !.ann = [k |-> Ann("int", TRUE, FALSE)],
                                      !.hasConstants = TRUE,
                                      !.constants0 = {"c0"},
                                      !.dict = [k |-> V("int")]]
      [] c = "O"  -> [BaseComp EXCEPT !.cls = "Over",
                                      !.params = << <<"weight", "Tensor">> >>,
                                      !.hasOverloads = TRUE,
                                      !.dict = [act |-> V("function")]]
      [] c = "P1" -> [BaseComp EXCEPT !.cls = "Net", !.modules = << <<"sub", "L1">> >>]
      [] c = "P2" -> [BaseComp EXCEPT !.cls = "Net", !.modules = << <<"sub", "L2">> >>]
      [] c = "PU" -> [BaseComp EXCEPT !.cls = "Net", !.modules = << <<"sub", "U">> >>]
      [] c = "PB" -> [BaseComp EXCEPT !.cls = "Net", !.modules = << <<"sub", "B">> >>]
      [] c = "PI" -> [BaseComp EXCEPT !.cls = "Net", !.modules = << <<"sub", "L1">> >>,
                                      !.ann = [sub |-> Ann("IFace", FALSE, TRUE)]]
      [] c = "ML" -> [BaseComp EXCEPT !.cls = "ModuleList",
                                      !.modules = << <<"0", "L1">>, <<"1", "L2">>,
                                                     <<"2", "L4">> >>]
      [] c = "PM" -> [BaseComp EXCEPT !.cls = "Net", !.modules = << <<"sub", "ML">> >>]
      [] c = "PP" -> [BaseComp EXCEPT !.cls = "Net", !.modules = << <<"sub", "P1">> >>]
      \* a.sub = b; b.sub = a
      [] c = "CA" -> [BaseComp EXCEPT !.cls = "Net", !.modules = << <<"sub", "CB">> >>]
      [] c = "CB" -> [BaseComp EXCEPT !.cls = "Net", !.modules = << <<"sub", "CA">> >>]
      [] c = "E"  -> [BaseComp EXCEPT !.cls = "Exp"]
      [] c = "I"  -> [BaseComp EXCEPT !.cls = "Ign"]
      \* the instance inference is studied on: replaced by each generated input
      [] c = "G"  -> BaseComp

\* the instance named c
Comp(c) == instances[c]

\* hasattr(nn_module, '_parameters')
IsInitialized(c) == Comp(c).init

Lookup(pairs, name) == (CHOOSE i \in DOMAIN pairs : pairs[i][1] = name)

\* attributes every initialized torch.nn.Module has: the class attribute
\* _version = 1 and the containers set by Module.__init__
ModuleAttrs == [_version |-> V("int"), _parameters |-> V("OrderedDict"),
                _buffers |-> V("OrderedDict"), _modules |-> V("OrderedDict")]

\* hasattr(nn_module, name) for an initialized module
HasAttr(c, name) ==
    LET m == Comp(c) IN
    \/ name \in DOMAIN ModuleAttrs
    \/ name \in DOMAIN m.dict
    \/ name \in DOMAIN m.props
    \/ name \in DOMAIN Methods(m.cls)
    \/ name \in Keys(m.params) \cup Keys(m.buffers) \cup Keys(m.modules)

\* getattr(nn_module, name)
GetAttr(c, name) ==
    LET m == Comp(c) IN
    IF name \in DOMAIN ModuleAttrs THEN ModuleAttrs[name]
    ELSE IF name \in DOMAIN m.dict THEN m.dict[name]
    ELSE IF name \in DOMAIN m.props THEN m.props[name]
    ELSE IF name \in Keys(m.params)
         THEN V(IF m.params[Lookup(m.params, name)][2] = "None" THEN "NoneType" ELSE "Tensor")
    ELSE IF name \in Keys(m.buffers)
         THEN V(IF m.buffers[Lookup(m.buffers, name)][2] = "None" THEN "NoneType" ELSE "Tensor")
    ELSE IF name \in Keys(m.modules) THEN V("Module")
    ELSE V("method")

\* dir(nn_module)
Dir(c) ==
    LET m == Comp(c) IN
    DOMAIN m.dict \cup DOMAIN m.props \cup DOMAIN Methods(m.cls)
      \cup Keys(m.params) \cup Keys(m.buffers) \cup Keys(m.modules)
      \cup {"_parameters", "_buffers", "_modules", "_version", "__dict__"}
      \cup (IF m.hasConstants THEN {"__constants__"} ELSE {})
      \cup (IF DOMAIN m.ann # {} THEN {"__annotations__"} ELSE {})

---------------------------------------------------------------------------
\* Results, errors, the event log

NoErr == [kind |-> "None", who |-> ""]

Err(kind, who) == [kind |-> kind, who |-> who]

\* outcome of a (nested) call: the state it left, the exception it raised, its value
R(st, err, val) == [st |-> st, err |-> err, val |-> val]

Log(st, ev, who, ct) ==
    [st EXCEPT !.trace = Append(@, [ev |-> ev, who |-> who, ct |-> ct])]

Warn(st, c, name) == [st EXCEPT !.warned = @ \cup {<<c, name>>}]

\* a Python RecursiveScriptModule / constant collection
NoModule == [ct |-> 0, py |-> "", modules |-> <<>>, overlay |-> {}, ignored |-> {}]

\* references to modules handed to the entry points
UserRef(c) == [script |-> FALSE, id |-> c, mod |-> NoModule]

ScriptRef(mod) == [script |-> TRUE, id |-> mod.py, mod |-> mod]

RECURSIVE InferModules(_, _, _, _, _)
RECURSIVE InferModulesNext(_, _, _, _, _)
RECURSIVE infer_raw_concrete_type(_, _, _)
RECURSIVE get_or_create_concrete_type(_, _, _)
RECURSIVE create_constant_iterable_module(_, _, _)
RECURSIVE IterableItems(_, _, _, _, _)
RECURSIVE IterableItemsNext(_, _, _, _, _)
RECURSIVE recursive_script(_, _, _)
RECURSIVE interface_script(_, _, _, _)
RECURSIVE create_script_module(_, _, _, _)
RECURSIVE create_script_module_impl(_, _, _, _, _)
RECURSIVE InitModules(_, _, _, _, _, _)
RECURSIVE InitModulesNext(_, _, _, _, _, _, _)

---------------------------------------------------------------------------
\* ConcreteModuleType

NewConcreteType(cls) ==
    [py_class |-> cls,
     is_dict |-> cls \in {"ModuleDict", "_ConstModuleDict"},
     is_list |-> cls \in {"ModuleList", "Sequential", "_ConstModuleList",
                          "_ConstSequential"},
     attributes |-> <<>>, modules |-> <<>>, constants |-> NoMap,
     overloads |-> NoMap, function_attributes |-> NoMap,
     failed_attributes |-> NoMap, poisoned |-> FALSE, jit_type |-> 0]

add_attribute(raw, name, type, is_param) ==
    [raw EXCEPT !.attributes =
        Append(@, [name |-> name, type |-> type, is_param |-> is_param])]

add_module(raw, name, ct) ==
    [raw EXCEPT !.modules = Append(@, [name |-> name, iface |-> "", ct |-> ct])]

add_module_interface(raw, name, iface) ==
    [raw EXCEPT !.modules = Append(@, [name |-> name, iface |-> iface, ct |-> 0])]

add_constant(raw, name, value) ==
    [raw EXCEPT !.constants = (name :> value) @@ @]

add_overload(raw, name, overloaded_names) ==
    [raw EXCEPT !.overloads = (name :> overloaded_names) @@ @]

add_function_attribute(raw, name, type) ==
    [raw EXCEPT !.function_attributes = (name :> type) @@ @]

add_failed_attribute(raw, name, hint) ==
    [raw EXCEPT !.failed_attributes = (name :> hint) @@ @]

RECURSIVE Equals(_, _, _)
\* ConcreteModuleType.equals: structural equality, submodules compared by their
\* own structural equality; identity, JIT type and poisoning play no part.
Equals(heap, a, b) ==
    /\ a.py_class = b.py_class
    /\ a.is_dict = b.is_dict
    /\ a.is_list = b.is_list
    /\ a.attributes = b.attributes
    /\ a.constants = b.constants
    /\ a.overloads = b.overloads
    /\ a.function_attributes = b.function_attributes
    /\ a.failed_attributes = b.failed_attributes
    /\ Len(a.modules) = Len(b.modules)
    /\ \A i \in DOMAIN a.modules :
          /\ a.modules[i].name = b.modules[i].name
          /\ a.modules[i].iface = b.modules[i].iface
          /\ (a.modules[i].ct = 0) = (b.modules[i].ct = 0)
          /\ a.modules[i].ct # 0 =>
                Equals(heap, heap[a.modules[i].ct], heap[b.modules[i].ct])

---------------------------------------------------------------------------
\* Structural type inference

\* torch.jit.annotations.ann_to_type
ann_to_type(ann) == ann.type

RECURSIVE _jit_try_infer_type(_)
\* torch._C._jit_try_infer_type: the type name, or "None" when none can be inferred
_jit_try_infer_type(item) ==
    CASE item.tag \in {"int", "float", "bool", "str", "Tensor"} -> item.tag
      [] item.tag \in {"list", "tuple"} ->
            IF item.items = <<>> THEN "None"
            ELSE IF _jit_try_infer_type(item.items[1]) = "None" THEN "None"
            ELSE "List[" \o _jit_try_infer_type(item.items[1]) \o "]"
      [] item.tag \in {"function", "ScriptFunction"} -> "Function"
      [] OTHER -> "None"

infer_type(c, name, item) ==
    IF name \in DOMAIN Comp(c).ann
    THEN ann_to_type(Comp(c).ann[name])
    ELSE _jit_try_infer_type(item)

\* IsValidConstant without the descent into tuples and lists
IsValidConstantShallow(v) == v.tag \in _constant_types \cup {"tuple", "list"}

RECURSIVE IsValidConstant(_)
\* whether _get_valid_constant returns rather than raises
IsValidConstant(v) ==
    \/ v.tag \in _constant_types
    \/ /\ v.tag \in {"tuple", "list"}
       /\ \A i \in DOMAIN v.items : IsValidConstant(v.items[i])

RECURSIVE Offending(_)
\* the value _get_valid_constant raises on: the first one, depth first, that is
\* neither of a constant type nor a tuple or list
Offending(v) ==
    IF v.tag \in {"tuple", "list"}
    THEN Offending(v.items[CHOOSE i \in DOMAIN v.items :
                             /\ ~IsValidConstant(v.items[i])
                             /\ \A j \in 1 .. i - 1 : IsValidConstant(v.items[j])])
    ELSE v

\* the TypeError's message: type(v).__name__ and attr
NotAValidConstant(attr, v) ==
    Err("TypeError", "'" \o Offending(v).tag \o "' object for attribute '" \o attr \o "'")

RECURSIVE _get_valid_constant(_)
\* the constant recorded for a valid value: lists and tuples become tuples
_get_valid_constant(v) ==
    IF v.tag \in _constant_types THEN v
    ELSE [tag |-> "tuple",
          items |-> [i \in DOMAIN v.items |-> _get_valid_constant(v.items[i])]]

RECURSIVE AddTensorsKeepNone(_, _, _, _)
\* AddTensors without the `if item is None: continue`
AddTensorsKeepNone(c, raw, items, is_param) ==
    IF items = <<>> THEN raw
    ELSE AddTensorsKeepNone(c,
             add_attribute(raw, Head(items)[1],
                           infer_type(c, Head(items)[1], V("Tensor")), is_param),
             Tail(items), is_param)

RECURSIVE AddTensors(_, _, _, _)
\* the loops over _parameters and _buffers: a None entry is dropped
AddTensors(c, raw, items, is_param) ==
    IF items = <<>> THEN raw
    ELSE IF Head(items)[2] = "None"
    THEN AddTensors(c, raw, Tail(items), is_param)
    ELSE AddTensors(c,
             add_attribute(raw, Head(items)[1],
                           infer_type(c, Head(items)[1], V("Tensor")), is_param),
             Tail(items), is_param)

NonNull(items) == {items[i][1] : i \in {j \in DOMAIN items : items[j][2] # "None"}}

\* InferModules spending two frames of the recursion limit per submodule level
InferModulesDeep(st, c, i, raw, fuel) ==
    IF i > Len(Comp(c).modules) THEN R(st, NoErr, raw)
    ELSE IF infer_type(c, Comp(c).modules[i][1], V("Module")) # "None"
    THEN InferModules(st, c, i + 1,
             add_module_interface(raw, Comp(c).modules[i][1],
                                  infer_type(c, Comp(c).modules[i][1], V("Module"))),
             fuel)
    ELSE InferModulesNext(c, i, raw, fuel,
             get_or_create_concrete_type(st, UserRef(Comp(c).modules[i][2]), fuel - 2))

\* the loop over _modules
InferModules(st, c, i, raw, fuel) ==
    IF i > Len(Comp(c).modules) THEN R(st, NoErr, raw)
    ELSE IF infer_type(c, Comp(c).modules[i][1], V("Module")) # "None"
    THEN InferModules(st, c, i + 1,
             add_module_interface(raw, Comp(c).modules[i][1],
                                  infer_type(c, Comp(c).modules[i][1], V("Module"))),
             fuel)
    ELSE InferModulesNext(c, i, raw, fuel,
             get_or_create_concrete_type(st, UserRef(Comp(c).modules[i][2]), fuel - 1))

\* ... with the submodule's concrete type r in hand
InferModulesNext(c, i, raw, fuel, r) ==
    IF r.err # NoErr THEN R(r.st, r.err, raw)
    ELSE InferModules(r.st, c, i + 1, add_module(raw, Comp(c).modules[i][1], r.val), fuel)

\* AddConstant raising where the code only warns (the TODO of line 142)
AddConstantStrict(c, name, acc) ==
    IF acc.err # NoErr THEN acc
    ELSE IF name \in acc.val.added THEN acc
    ELSE IF ~HasAttr(c, name) THEN R(acc.st, Err("AttributeError", name), acc.val)
    ELSE IF ~IsValidConstant(GetAttr(c, name))
    THEN R(acc.st, NotAValidConstant(name, GetAttr(c, name)), acc.val)
    ELSE R(acc.st, NoErr,
           [raw |-> add_constant(acc.val.raw, name, _get_valid_constant(GetAttr(c, name))),
            added |-> acc.val.added \cup {name}])

\* AddConstant without the `if name in added_names: continue`
AddConstantUnchecked(c, name, acc) ==
    IF acc.err # NoErr THEN acc
    ELSE IF ~HasAttr(c, name) THEN R(Warn(acc.st, c, name), NoErr, acc.val)
    ELSE IF ~IsValidConstant(GetAttr(c, name))
    THEN R(acc.st, NotAValidConstant(name, GetAttr(c, name)), acc.val)
    ELSE R(acc.st, NoErr,
           [raw |-> add_constant(acc.val.raw, name, _get_valid_constant(GetAttr(c, name))),
            added |-> acc.val.added \cup {name}])

\* one iteration of the loop over constants_set; acc = [st, err, val = [raw, added]]
AddConstant(c, name, acc) ==
    IF acc.err # NoErr THEN acc
    ELSE IF name \in acc.val.added THEN acc
    ELSE IF ~HasAttr(c, name) THEN R(Warn(acc.st, c, name), NoErr, acc.val)
    ELSE IF ~IsValidConstant(GetAttr(c, name))
    THEN R(acc.st, NotAValidConstant(name, GetAttr(c, name)), acc.val)
    ELSE R(acc.st, NoErr,
           [raw |-> add_constant(acc.val.raw, name, _get_valid_constant(GetAttr(c, name))),
            added |-> acc.val.added \cup {name}])

RECURSIVE AddConstants(_, _, _)
\* the loop over constants_set
AddConstants(c, names, acc) ==
    IF names = <<>> THEN acc
    ELSE AddConstants(c, Tail(names), AddConstant(c, Head(names), acc))

\* get_overload_name_mapping(get_overload_annotations(mod)):
\* base name -> <<base__0, base__1, ...>>
get_overload_name_mapping(c) ==
    [base \in DOMAIN OverloadCount(Comp(c).cls) |->
        [i \in 1 .. OverloadCount(Comp(c).cls)[base] |-> base \o "__" \o ToString(i - 1)]]

\* ScanAttr without the `if name in added_names: continue`
ScanAttrUnchecked(c, name, raw, added) ==
    IF name \in blacklist \/ name \in DunderNames THEN raw
    ELSE IF ~HasAttr(c, name) THEN raw
    ELSE IF name \notin DOMAIN Comp(c).dict /\ name \notin DOMAIN Comp(c).props THEN raw
    ELSE IF GetAttr(c, name).tag \in {"function", "badfunction"}
    THEN IF name \in DOMAIN Methods(Comp(c).cls) THEN raw
         ELSE IF GetAttr(c, name).tag = "function"
         THEN add_function_attribute(raw, name, "Function")
         ELSE add_failed_attribute(raw, name, "failed to compile")
    ELSE IF GetAttr(c, name).tag = "ScriptFunction"
    THEN add_function_attribute(raw, name, "Function")
    ELSE IF infer_type(c, name, GetAttr(c, name)) # "None"
    THEN add_attribute(raw, name, infer_type(c, name, GetAttr(c, name)), FALSE)
    ELSE add_failed_attribute(raw, name, "failed to convert")

\* one iteration of the loop over dir(nn_module)
ScanAttr(c, name, raw, added) ==
    IF name \in blacklist \/ name \in DunderNames THEN raw
    ELSE IF name \in added THEN raw
    ELSE IF ~HasAttr(c, name) THEN raw
    ELSE IF name \notin DOMAIN Comp(c).dict /\ name \notin DOMAIN Comp(c).props THEN raw
    ELSE IF GetAttr(c, name).tag \in {"function", "badfunction"}
    THEN IF name \in DOMAIN Methods(Comp(c).cls) THEN raw
         ELSE IF GetAttr(c, name).tag = "function"
         THEN add_function_attribute(raw, name, "Function")
         ELSE add_failed_attribute(raw, name, "failed to compile")
    ELSE IF GetAttr(c, name).tag = "ScriptFunction"
    THEN add_function_attribute(raw, name, "Function")
    ELSE IF infer_type(c, name, GetAttr(c, name)) # "None"
    THEN add_attribute(raw, name, infer_type(c, name, GetAttr(c, name)), FALSE)
    ELSE add_failed_attribute(raw, name, "failed to convert")

RECURSIVE ScanAttrs(_, _, _, _)
\* the loop over dir(nn_module)
ScanAttrs(c, names, raw, added) ==
    IF names = <<>> THEN raw
    ELSE ScanAttrs(c, Tail(names), ScanAttr(c, Head(names), raw, added), added)

RECURSIVE AddOverloads(_, _, _)
AddOverloads(raw, names, map) ==
    IF names = <<>> THEN raw
    ELSE AddOverloads(add_overload(raw, Head(names), map[Head(names)]), Tail(names), map)

\* constants_set: the module's __constants__ (a fresh set() when it has none)
\* with every name annotated Final added to it
ConstantsSet(st, c) ==
    (IF Comp(c).hasConstants THEN st.constants[c] ELSE {})
        \cup {n \in DOMAIN Comp(c).ann : Comp(c).ann[n].final}

\* constants_set.add(name) acts on the module's own set when it has one
AddFinals(st, c) ==
    IF Comp(c).hasConstants
    THEN [st EXCEPT !.constants[c] = ConstantsSet(st, c)]
    ELSE st

\* overloads: the module's __overloads__ (a fresh {} when it has none)
\* updated with the annotated overloads
OverloadsDict(st, c) ==
    get_overload_name_mapping(c) @@
        (IF st.overloads[c].present THEN st.overloads[c].map ELSE NoMap)

\* overloads.update(...) acts on the module's own dict when it has one
UpdateOverloads(st, c) ==
    IF st.overloads[c].present
    THEN [st EXCEPT !.overloads[c].map = OverloadsDict(st, c)]
    ELSE st

\* lines 153-232, after the constants: rc = [st, err, val = [raw, added]]
InferRest(c, rc) ==
    IF rc.err # NoErr THEN R(rc.st, rc.err, NewConcreteType(Comp(c).cls))
    ELSE R(UpdateOverloads(rc.st, c), NoErr,
           ScanAttrs(c, SeqOfSet(NameOrder, Dir(c)),
                     AddOverloads(rc.val.raw,
                                  SeqOfSet(NameOrder, DOMAIN OverloadsDict(rc.st, c)),
                                  OverloadsDict(rc.st, c)),
                     rc.val.added))

\* lines 128-151, after the submodules: rm = [st, err, val = raw]
InferConstants(c, rm) ==
    IF rm.err # NoErr THEN rm
    ELSE InferRest(c,
             AddConstants(c, SeqOfSet(NameOrder, ConstantsSet(rm.st, c)),
                 R(AddFinals(rm.st, c), NoErr,
                   [raw |-> rm.val,
                    added |-> NonNull(Comp(c).params) \cup NonNull(Comp(c).buffers)
                                \cup Keys(Comp(c).modules)])))

infer_raw_concrete_type(st, c, fuel) ==
    IF ~IsInitialized(c)
    THEN \* nn_module._parameters does not exist
         R(Log(st, "infer", c, 0), Err("AttributeError", Comp(c).cls),
           NewConcreteType(Comp(c).cls))
    ELSE InferConstants(c,
             InferModules(Log(st, "infer", c, 0), c, 1,
                 AddTensors(c,
                     AddTensors(c, NewConcreteType(Comp(c).cls), Comp(c).params, TRUE),
                     Comp(c).buffers, FALSE),
                 fuel))

---------------------------------------------------------------------------
\* ConcreteTypeStore

RECURSIVE FindKnownByIdentity(_, _, _, _)
\* FindKnown comparing objects instead of structure: raw is a new object
FindKnownByIdentity(heap, raw, known_types, i) ==
    IF i > Len(known_types) THEN 0
    ELSE IF raw = heap[known_types[i]] THEN known_types[i]
    ELSE FindKnownByIdentity(heap, raw, known_types, i + 1)

\* FindKnown taking the first type known for the class, whatever its structure
FindKnownFirst(heap, raw, known_types, i) ==
    IF i > Len(known_types) THEN 0 ELSE known_types[i]

RECURSIVE FindKnown(_, _, _, _)
\* the search loop over known_types: the first entry raw equals, or 0
FindKnown(heap, raw, known_types, i) ==
    IF i > Len(known_types) THEN 0
    ELSE IF Equals(heap, raw, heap[known_types[i]]) THEN known_types[i]
    ELSE FindKnown(heap, raw, known_types, i + 1)

\* Materialize without create_new_type_from_this: the object gets no JIT type
MaterializeUntyped(st, raw, poisoned) ==
    [st EXCEPT !.types = Append(@, [raw EXCEPT !.poisoned = poisoned]),
               !.submitted = Append(@, [all |-> 0, ok |-> 0]),
               !.jit_methods = Append(@, {})]

\* a new object on the heap of ConcreteModuleTypes, with a new JIT type
Materialize(st, raw, poisoned) ==
    [st EXCEPT !.types = Append(@, [raw EXCEPT !.jit_type = st.jit_count + 1,
                                               !.poisoned = poisoned]),
               !.submitted = Append(@, [all |-> 0, ok |-> 0]),
               !.jit_methods = Append(@, {}),
               !.jit_count = @ + 1]

\* if nn_module_type not in self.type_store: self.type_store[nn_module_type] = []
EnsureKey(st, nn_module_type) ==
    IF nn_module_type \in DOMAIN st.type_store THEN st
    ELSE [st EXCEPT !.type_store = (nn_module_type :> <<>>) @@ @]

\* AppendNew assigning a new list instead of appending to the old one
AppendNewReplacing(st, nn_module_type) ==
    R([st EXCEPT !.type_store[nn_module_type] = <<Len(st.types)>>],
      NoErr, [ct |-> Len(st.types), created |-> TRUE])

\* self.type_store[nn_module_type].append(raw_concrete_type), on the new object
AppendNew(st, nn_module_type) ==
    R([st EXCEPT !.type_store[nn_module_type] = Append(@, Len(st.types))],
      NoErr, [ct |-> Len(st.types), created |-> TRUE])

\* lines 279-286, with the outcome of the search in hand
FoundOrNew(st, raw, known_type) ==
    IF known_type # 0
    THEN R(st, NoErr, [ct |-> known_type, created |-> FALSE])
    ELSE AppendNew(Materialize(st, raw, FALSE), raw.py_class)

SearchStore(st, raw) ==
    FoundOrNew(st, raw, FindKnown(st.types, raw, st.type_store[raw.py_class], 1))

\* lines 272-286: look the raw type up in the list of its class, else
\* create_new_type_from_this and append
StoreLookup(st, raw) == SearchStore(EnsureKey(st, raw.py_class), raw)

\* the general path's result rs = [st, err, val = [ct, created]] for component c
Resolved(c, raw, rs) ==
    R([rs.st EXCEPT !.resolved[c] =
          [done |-> TRUE, raw |-> raw, ct |-> rs.val.ct, created |-> rs.val.created]],
      NoErr, rs.val.ct)

\* lines 270-286, with the raw concrete type ri in hand
GeneralPath(c, ri) ==
    IF ri.err # NoErr THEN R(ri.st, ri.err, 0)
    ELSE Resolved(c, ri.val, StoreLookup(ri.st, ri.val))

\* scripted._concrete_type
ConcreteTypeOf(r) == R(r.st, r.err, r.val.ct)

\* get_or_create_concrete_type inferring the type of a container like any other
get_or_create_concrete_typeInferOnly(st, m, fuel) ==
    IF fuel <= 0 THEN R(st, Err("RecursionError", m.id), 0)
    ELSE IF m.script /\ m.mod.ct # 0 THEN R(st, NoErr, m.mod.ct)
    ELSE GeneralPath(m.id, infer_raw_concrete_type(st, m.id, fuel))

\* get_or_create_concrete_type refusing a component whose inference is under way
get_or_create_concrete_typeDetecting(st, m, fuel) ==
    IF fuel <= 0 THEN R(st, Err("RecursionError", m.id), 0)
    ELSE IF m.script /\ m.mod.ct # 0 THEN R(st, NoErr, m.mod.ct)
    ELSE IF \E k \in DOMAIN st.trace : st.trace[k].ev = "infer" /\ st.trace[k].who = m.id
    THEN R(st, Err("CycleError", m.id), 0)
    ELSE IF Comp(m.id).cls \in ContainerClasses
    THEN ConcreteTypeOf(create_constant_iterable_module(st, m.id, fuel))
    ELSE GeneralPath(m.id, infer_raw_concrete_type(st, m.id, fuel))

\* get_or_create_concrete_type without the fast path of lines 247-249
get_or_create_concrete_typeAnew(st, m, fuel) ==
    IF fuel <= 0 THEN R(st, Err("RecursionError", m.id), 0)
    ELSE IF Comp(m.id).cls \in ContainerClasses
    THEN ConcreteTypeOf(create_constant_iterable_module(st, m.id, fuel))
    ELSE GeneralPath(m.id, infer_raw_concrete_type(st, m.id, fuel))

get_or_create_concrete_type(st, m, fuel) ==
    IF fuel <= 0 THEN R(st, Err("RecursionError", m.id), 0)
    ELSE IF m.script /\ m.mod.ct # 0 THEN R(st, NoErr, m.mod.ct)
    ELSE IF Comp(m.id).cls \in ContainerClasses
    THEN ConcreteTypeOf(create_constant_iterable_module(st, m.id, fuel))
    ELSE GeneralPath(m.id, infer_raw_concrete_type(st, m.id, fuel))

---------------------------------------------------------------------------
\* Method stubs and compilation roots

Stub(name, original_method, refs) ==
    [name |-> name, original_method |-> original_method, refs |-> refs]

\* make_stub_from_method: the function is looked up on the class
make_stub_from_method(c, method) ==
    IF method \in DOMAIN Methods(Comp(c).cls)
    THEN Stub(method, method, Methods(Comp(c).cls)[method].refs)
    ELSE \* torch.nn.Module.forward(self, *input), which has no compilable body
         Stub(method, method, {"*input"})

is_ignored_fn(cls, name) ==
    /\ name \in DOMAIN Methods(cls)
    /\ Methods(cls)[name].modifier \in {"IGNORE", "UNUSED"}

\* Uniqued without the uniquer set
UniquedNot(names, uniquer) == names

RECURSIVE Uniqued(_, _)
\* the uniquer loop: first occurrences, in order
Uniqued(names, uniquer) ==
    IF names = <<>> THEN <<>>
    ELSE IF Head(names) \in uniquer THEN Uniqued(Tail(names), uniquer)
    ELSE <<Head(names)>> \o Uniqued(Tail(names), uniquer \cup {Head(names)})

RECURSIVE make_stubs_for_overloads(_, _, _)
\* one stub per overload, in the order of overload_info
make_stubs_for_overloads(c, bases, mapping) ==
    IF bases = <<>> THEN <<>>
    ELSE [i \in DOMAIN mapping[Head(bases)] |->
             Stub(mapping[Head(bases)][i], Head(bases),
                  Methods(Comp(c).cls)[Head(bases)].refs)]
           \o make_stubs_for_overloads(c, Tail(bases), mapping)

check_module_initialized(st, c) ==
    IF IsInitialized(c) THEN R(Log(st, "check", c, 0), NoErr, 0)
    ELSE R(Log(st, "check", c, 0), Err("InitializationError", Comp(c).cls), 0)

\* methods = ['forward'] (if overridden and not ignored) + exported
MethodsAndExported(c) ==
    (IF "forward" \in DOMAIN Methods(Comp(c).cls) /\ ~is_ignored_fn(Comp(c).cls, "forward")
     THEN <<"forward">> ELSE <<>>)
      \o SeqOfSet(NameOrder, {n \in DOMAIN Methods(Comp(c).cls) :
                                 Methods(Comp(c).cls)[n].modifier = "EXPORT"})

\* overload_name_mappings = dict(__overloads__) updated with the annotated ones
OverloadNameMappings(st, c) ==
    get_overload_name_mapping(c) @@
        (IF st.overloads[c].present THEN st.overloads[c].map ELSE NoMap)

\* the names left after filtering out overloaded methods and uniquing
UniquedMethods(c, mapping) ==
    Uniqued(SelectSeq(MethodsAndExported(c), LAMBDA n : n \notin DOMAIN mapping), {})

StubsFor(c, names) == [i \in DOMAIN names |-> make_stub_from_method(c, names[i])]

\* MethodsToCompile filtering by __overloads__ as it is before line 501
MethodsToCompileStale(st, c) ==
    R([st EXCEPT !.overloads[c] =
          [present |-> TRUE, map |-> OverloadNameMappings(st, c)]],
      NoErr,
      make_stubs_for_overloads(c,
          SeqOfSet(NameOrder, DOMAIN get_overload_name_mapping(c)),
          get_overload_name_mapping(c))
        \o StubsFor(c, UniquedMethods(c, st.overloads[c].map)))

\* lines 480-522, after the initialization check
MethodsToCompile(st, c) ==
    R([st EXCEPT !.overloads[c] =
          [present |-> TRUE, map |-> OverloadNameMappings(st, c)]],
      NoErr,
      make_stubs_for_overloads(c,
          SeqOfSet(NameOrder, DOMAIN get_overload_name_mapping(c)),
          get_overload_name_mapping(c))
        \o StubsFor(c, UniquedMethods(c, OverloadNameMappings(st, c))))

MethodsChecked(c, chk) ==
    IF chk.err # NoErr THEN R(chk.st, chk.err, <<>>)
    ELSE MethodsToCompile(chk.st, c)

infer_methods_to_compile(st, c) == MethodsChecked(c, check_module_initialized(st, c))

infer_interface_methods_to_compile(mod_interface, c) ==
    StubsFor(c, getMethodNames(mod_interface))

\* The names a method body can read from self on a module of this type
KnownNames(ctype) ==
    {ctype.attributes[i].name : i \in DOMAIN ctype.attributes}
        \cup {ctype.modules[i].name : i \in DOMAIN ctype.modules}
        \cup DOMAIN ctype.constants
        \cup DOMAIN ctype.function_attributes

\* The method-body compiler: the stubs of a batch that fail to compile
CompileFailures(ctype, stubs) ==
    {i \in DOMAIN stubs : ~(stubs[i].refs \subseteq KnownNames(ctype))}

---------------------------------------------------------------------------
\* Building RecursiveScriptModules

MinOf(set) == CHOOSE i \in set : \A j \in set : i <= j

\* SubmitBatch without methods_compiled.add
SubmitBatchNoMark(st, c, ct, stubs, bad) ==
    IF bad # {}
    THEN R(st, Err("CompilationError", stubs[MinOf(bad)].name), 0)
    ELSE R([Log(Log(st, "hook", c, ct), "mark", c, ct) EXCEPT
                !.submitted[ct].ok = @ + 1,
                !.jit_methods[ct] = @ \cup {stubs[i].name : i \in DOMAIN stubs}],
           NoErr, 0)

\* SubmitBatch with methods_compiled.add moved before the compilation
SubmitBatchMarkFirst(st, c, ct, stubs, bad) ==
    IF bad # {}
    THEN R([st EXCEPT !.methods_compiled = @ \cup {ct}],
           Err("CompilationError", stubs[MinOf(bad)].name), 0)
    ELSE R([Log(Log(st, "hook", c, ct), "mark", c, ct) EXCEPT
                !.submitted[ct].ok = @ + 1,
                !.jit_methods[ct] = @ \cup {stubs[i].name : i \in DOMAIN stubs},
                !.methods_compiled = @ \cup {ct}],
           NoErr, 0)

\* create_methods_from_stubs, the emit hook, methods_compiled.add
SubmitBatch(st, c, ct, stubs, bad) ==
    IF bad # {}
    THEN R(st, Err("CompilationError", stubs[MinOf(bad)].name), 0)
    ELSE R([Log(Log(st, "hook", c, ct), "mark", c, ct) EXCEPT
                !.submitted[ct].ok = @ + 1,
                !.jit_methods[ct] = @ \cup {stubs[i].name : i \in DOMAIN stubs},
                !.methods_compiled = @ \cup {ct}],
           NoErr, 0)

\* CompileMethods without the methods_compiled test
CompileMethodsAlways(st, c, ct, stubs) ==
    SubmitBatch([Log(st, "submit", c, ct) EXCEPT !.submitted[ct].all = @ + 1],
                c, ct, stubs, CompileFailures(st.types[ct], stubs))

\* CompileMethods leaving poisoned types out of methods_compiled altogether
CompileMethodsSkipPoisoned(st, c, ct, stubs) ==
    IF ct \in st.methods_compiled \/ st.types[ct].poisoned THEN R(st, NoErr, 0)
    ELSE SubmitBatch([Log(st, "submit", c, ct) EXCEPT !.submitted[ct].all = @ + 1],
                     c, ct, stubs, CompileFailures(st.types[ct], stubs))

\* lines 390-394: compile the stub batch unless the type's methods are compiled
CompileMethods(st, c, ct, stubs) ==
    IF ct \in st.methods_compiled THEN R(st, NoErr, 0)
    ELSE SubmitBatch([Log(st, "submit", c, ct) EXCEPT !.submitted[ct].all = @ + 1],
                     c, ct, stubs, CompileFailures(st.types[ct], stubs))

\* lines 397-418: the stubs whose compiled method is put on the Python module
Overlaid(stubs) ==
    {i \in DOMAIN stubs : /\ stubs[i].original_method # "None"
                          /\ stubs[i].original_method = stubs[i].name}

\* the overlaid stubs for which cpp_module._get_method(name) finds no method
Undefined(st, ct, stubs) ==
    {i \in Overlaid(stubs) : stubs[i].name \notin st.jit_methods[ct]}

\* the submodule of c the concrete type lists at i
OrigValue(st, c, ct, i) ==
    Comp(c).modules[Lookup(Comp(c).modules, st.types[ct].modules[i].name)][2]

\* init_fn step 2: script every submodule the concrete type lists
InitModules(st, c, ct, i, acc, fuel) ==
    IF i > Len(st.types[ct].modules) THEN R(st, NoErr, acc)
    ELSE InitModulesNext(c, ct, i, acc, fuel, st.types[ct].modules[i].name,
             IF st.types[ct].modules[i].iface # ""
             THEN interface_script(st, st.types[ct].modules[i].iface,
                                   UserRef(OrigValue(st, c, ct, i)), fuel - 1)
             ELSE recursive_script(st, UserRef(OrigValue(st, c, ct, i)), fuel - 1))

\* ... with the scripted submodule r in hand
InitModulesNext(c, ct, i, acc, fuel, name, r) ==
    IF r.err # NoErr THEN R(r.st, r.err, acc)
    ELSE InitModules(Log(r.st, "register_module", c, r.val.ct), c, ct, i + 1,
                     Append(acc, <<name, r.val>>), fuel)

\* lines 396-420, after the compilation step rc
OverlayMethods(c, ct, stubs, modules, rc) ==
    IF rc.err # NoErr THEN R(rc.st, rc.err, NoModule)
    ELSE IF Undefined(rc.st, ct, stubs) # {}
    THEN R(rc.st, Err("RuntimeError", stubs[MinOf(Undefined(rc.st, ct, stubs))].name),
           NoModule)
    ELSE R(Log(rc.st, "done", c, ct), NoErr,
           [ct |-> ct, py |-> c, modules |-> modules,
            overlay |-> {stubs[i].name : i \in Overlaid(stubs)},
            ignored |-> {n \in DOMAIN Methods(Comp(c).cls) :
                            is_ignored_fn(Comp(c).cls, n)}])

\* lines 375-394, after the submodules rm
AfterInit(c, ct, stubs, rm) ==
    IF rm.err # NoErr THEN R(rm.st, rm.err, NoModule)
    ELSE OverlayMethods(c, ct, stubs, rm.val,
             CompileMethods(Log(rm.st, "concrete_type", c, ct), c, ct, stubs))

\* create_script_module_impl compiling the methods before init_fn scripts the
\* submodules
create_script_module_implEager(st, c, ct, stubs, fuel) ==
    LET rc == CompileMethods(Log(Log(st, "attributes", c, ct), "concrete_type", c, ct),
                             c, ct, stubs)
    IN IF rc.err # NoErr THEN R(rc.st, rc.err, NoModule)
       ELSE LET rm == InitModules(rc.st, c, ct, 1, <<>>, fuel)
            IN IF rm.err # NoErr THEN R(rm.st, rm.err, NoModule)
               ELSE OverlayMethods(c, ct, stubs, rm.val, R(rm.st, NoErr, 0))

create_script_module_impl(st, c, ct, stubs, fuel) ==
    AfterInit(c, ct, stubs,
        InitModules(Log(st, "attributes", c, ct), c, ct, 1, <<>>, fuel))

\* lines 333-335, with the concrete type r in hand
BuildResolved(c, stubs, fuel, r) ==
    IF r.err # NoErr THEN R(r.st, r.err, NoModule)
    ELSE create_script_module_impl(r.st, c, r.val, stubs, fuel)

\* lines 332-335, after the initialization check
BuildChecked(c, stubs, fuel, chk) ==
    IF chk.err # NoErr THEN R(chk.st, chk.err, NoModule)
    ELSE BuildResolved(c, stubs, fuel,
             get_or_create_concrete_type(chk.st, UserRef(c), fuel))

create_script_module(st, c, stubs, fuel) ==
    BuildChecked(c, stubs, fuel, check_module_initialized(st, c))

\* lines 313-320: a fresh cpp_module type, set_poisoned, add_jit_type
TracePoisoned(c, stubs, fuel, st) ==
    create_script_module_impl(st, c, Len(st.types), stubs, fuel)

\* TraceInferred registering the poisoned type in the store
TraceInferredShared(c, stubs, fuel, ri) ==
    IF ri.err # NoErr THEN R(ri.st, ri.err, NoModule)
    ELSE TracePoisoned(c, stubs, fuel,
             AppendNew(Materialize(EnsureKey(ri.st, ri.val.py_class), ri.val, TRUE),
                       ri.val.py_class).st)

\* TraceInferred taking its type from the store, as create_script_module does
TraceInferredCached(c, stubs, fuel, ri) ==
    IF ri.err # NoErr THEN R(ri.st, ri.err, NoModule)
    ELSE create_script_module_impl(StoreLookup(ri.st, ri.val).st, c,
                                   StoreLookup(ri.st, ri.val).val.ct, stubs, fuel)

\* lines 312-320, with the raw concrete type ri in hand
TraceInferred(c, stubs, fuel, ri) ==
    IF ri.err # NoErr THEN R(ri.st, ri.err, NoModule)
    ELSE TracePoisoned(c, stubs, fuel, Materialize(ri.st, ri.val, TRUE))

TraceChecked(c, stubs, fuel, chk) ==
    IF chk.err # NoErr THEN R(chk.st, chk.err, NoModule)
    ELSE TraceInferred(c, stubs, fuel, infer_raw_concrete_type(chk.st, c, fuel))

create_script_module_for_tracing(st, c, stubs, fuel) ==
    TraceChecked(c, stubs, fuel, check_module_initialized(st, c))

InterfaceChecked(mod_interface, c, fuel, chk) ==
    IF chk.err # NoErr THEN R(chk.st, chk.err, NoModule)
    ELSE create_script_module(chk.st, c,
             infer_interface_methods_to_compile(mod_interface, c), fuel)

interface_script(st, mod_interface, m, fuel) ==
    IF fuel <= 0 THEN R(st, Err("RecursionError", m.id), NoModule)
    ELSE IF m.script THEN R(st, NoErr, m.mod)
    ELSE InterfaceChecked(mod_interface, m.id, fuel, check_module_initialized(st, m.id))

\* line 566, with the stubs rs in hand
ScriptWithStubs(c, fuel, rs) ==
    IF rs.err # NoErr THEN R(rs.st, rs.err, NoModule)
    ELSE create_script_module(rs.st, c, rs.val, fuel)

\* lines 562-566, after the initialization check
ScriptChecked(c, fuel, chk) ==
    IF chk.err # NoErr THEN R(chk.st, chk.err, NoModule)
    ELSE IF Comp(c).cls \in ContainerClasses
    THEN create_constant_iterable_module(chk.st, c, fuel)
    ELSE ScriptWithStubs(c, fuel, infer_methods_to_compile(chk.st, c))

recursive_script(st, m, fuel) ==
    IF fuel <= 0 THEN R(st, Err("RecursionError", m.id), NoModule)
    ELSE IF m.script THEN R(st, NoErr, m.mod)
    ELSE ScriptChecked(m.id, fuel, check_module_initialized(st, m.id))

---------------------------------------------------------------------------
\* Constant iterable modules

\* the collection's raw concrete type: one submodule entry per scripted member,
\* each resolved by the fast path to the member's own concrete type
ConstRaw(cls, members) ==
    [NewConcreteType(cls) EXCEPT !.modules =
        [i \in DOMAIN members |->
            [name |-> members[i][1], iface |-> "", ct |-> members[i][2].ct]]]

ConstBuilt(c, ct, members, rc) ==
    R(Log(rc.st, "done", c, ct), NoErr,
      [ct |-> ct, py |-> c, modules |-> members, overlay |-> {}, ignored |-> {}])

ConstResolved(c, members, rs) ==
    ConstBuilt(c, rs.val.ct, members,
        CompileMethods(Log(rs.st, "concrete_type", c, rs.val.ct), c, rs.val.ct, <<>>))

\* torch.jit._ConstModuleList / _ConstSequential / _ConstModuleDict over already
\* scripted members: the collection gets its ConcreteType through the store
\* and is built like any other module.
ConstWrap(st, c, cls, members) ==
    ConstResolved(c, members, StoreLookup(Log(st, "infer", c, 0), ConstRaw(cls, members)))

\* the loop over module._modules
IterableItems(st, c, i, acc, fuel) ==
    IF i > Len(Comp(c).modules) THEN R(st, NoErr, acc)
    ELSE IterableItemsNext(c, i, acc, fuel,
             IF Comp(Comp(c).modules[i][2]).cls \in ContainerClasses
             THEN create_constant_iterable_module(st, Comp(c).modules[i][2], fuel - 1)
             ELSE recursive_script(st, UserRef(Comp(c).modules[i][2]), fuel - 1))

\* ... with the scripted member r in hand
IterableItemsNext(c, i, acc, fuel, r) ==
    IF r.err # NoErr THEN R(r.st, r.err, acc)
    ELSE IterableItems(r.st, c, i + 1, Append(acc, <<Comp(c).modules[i][1], r.val>>), fuel)

\* lines 599-607, with the scripted members r in hand
ConstantCollection(c, r) ==
    IF r.err # NoErr THEN R(r.st, r.err, NoModule)
    ELSE IF Comp(c).cls = "Sequential" THEN ConstWrap(r.st, c, "_ConstSequential", r.val)
    ELSE IF Comp(c).cls = "ModuleList" THEN ConstWrap(r.st, c, "_ConstModuleList", r.val)
    ELSE IF Comp(c).cls = "ModuleDict" THEN ConstWrap(r.st, c, "_ConstModuleDict", r.val)
    ELSE R(r.st, Err("UnsupportedContainerError", Comp(c).cls), NoModule)

create_constant_iterable_module(st, c, fuel) ==
    IF fuel <= 0 THEN R(st, Err("RecursionError", c), NoModule)
    ELSE IF ~IsInitialized(c)
    THEN \* module._modules does not exist
         R(Log(st, "iterable", c, 0), Err("AttributeError", Comp(c).cls), NoModule)
    ELSE ConstantCollection(c, IterableItems(Log(st, "iterable", c, 0), c, 1, <<>>, fuel))

---------------------------------------------------------------------------
\* The state machine: one action per entry point

NoResolve == [done |-> FALSE, raw |-> NewConcreteType(""), ct |-> 0, created |-> FALSE]

NoRet == [op |-> "", arg |-> "", script |-> FALSE, err |-> NoErr, ct |-> 0, mod |-> NoModule]

NoOut == [done |-> FALSE, err |-> NoErr, raw |-> NewConcreteType(""), warned |-> {}]

\* no call of infer_methods_to_compile returned yet
NoRoots == [n |-> 0, names |-> <<>>]

\* a thread that has not called get_or_create_concrete_type yet
Idle == [pc |-> "idle", arg |-> "", raw |-> NewConcreteType(""), found |-> 0, ct |-> 0]

Threads == {1, 2}

\* atomic: the callers hold a lock of their own around lines 272-286;
\* owner: the thread holding that lock, or 0
NoThreads == [atomic |-> FALSE, owner |-> 0, t |-> [i \in Threads |-> Idle]]

InitRest ==
    /\ out = NoOut
    /\ roots = [c \in CompIds |-> NoRoots]
    /\ limit = 0
    /\ types = <<>>
    /\ type_store = NoMap
    /\ methods_compiled = {}
    /\ submitted = <<>>
    /\ jit_methods = <<>>
    /\ jit_count = 0
    /\ constants = [c \in CompIds |-> Comp(c).constants0]
    /\ overloads = [c \in CompIds |->
                       [present |-> Comp(c).hasOverloads, map |-> Comp(c).overloads0]]
    /\ resolved = [c \in CompIds |-> NoResolve]
    /\ trace = <<>>
    /\ warned = {}
    /\ ret = NoRet
    /\ calls = 0

Init ==
    /\ instances = [c \in CompIds |-> Instances(c)]
    /\ threads = NoThreads
    /\ InitRest

\* the state a top-level call starts from
Begin ==
    [types |-> types, type_store |-> type_store, methods_compiled |-> methods_compiled,
     submitted |-> submitted, jit_methods |-> jit_methods, jit_count |-> jit_count,
     constants |-> constants, overloads |-> overloads, resolved |-> resolved,
     trace |-> <<>>, warned |-> {}]

\* the module-level state a call leaves, exception or not
CommitState(r) ==
    /\ types' = r.st.types
    /\ type_store' = r.st.type_store
    /\ methods_compiled' = r.st.methods_compiled
    /\ submitted' = r.st.submitted
    /\ jit_methods' = r.st.jit_methods
    /\ jit_count' = r.st.jit_count
    /\ constants' = r.st.constants
    /\ overloads' = r.st.overloads
    /\ resolved' = r.st.resolved
    /\ trace' = r.st.trace
    /\ warned' = r.st.warned

\* ... and what the caller of a top-level call run under recursion limit fuel sees
CommitAt(r, op, m, ct, mod, fuel) ==
    /\ CommitState(r)
    /\ ret' = [op |-> op, arg |-> m.id, script |-> m.script, err |-> r.err,
               ct |-> ct, mod |-> mod]
    /\ calls' = calls + 1
    /\ roots' = IF op = "infer_methods" /\ r.err = NoErr
                THEN [roots EXCEPT ![m.id] =
                         [n |-> @.n + 1, names |-> [i \in DOMAIN r.val |-> r.val[i].name]]]
                ELSE roots
    /\ limit' = fuel
    /\ UNCHANGED <<instances, out, threads>>

Commit(r, op, m, ct, mod) == CommitAt(r, op, m, ct, mod, MaxDepth)

ResolveInputs == {"L1", "L2", "L3", "P1", "P2", "PU", "ML", "PM"}

ScriptInputs == {"L1", "L2", "L3", "U", "B", "F", "O", "P1", "P2", "PU", "PB", "PI",
                 "ML", "PM", "PP"}

InterfaceInputs == {"L1", "F", "O"}

TraceInputs == {"L1", "P1", "PB"}

InferInputs == {"F", "O"}

MethodsInputs == {"O", "F", "U", "L1", "ML", "E", "I"}

\* the module the previous call returned, if any
Returned == IF ret.mod.ct # 0 THEN {ScriptRef(ret.mod)} ELSE {}

\* concrete_type_store.get_or_create_concrete_type(m)
Resolve ==
    /\ calls < MaxCalls
    /\ \E m \in {UserRef(c) : c \in ResolveInputs} \cup Returned :
          LET r == get_or_create_concrete_type(Begin, m, MaxDepth)
          IN Commit(r, "resolve", m, r.val, NoModule)

\* recursive_script(m)
RecursiveScript ==
    /\ calls < MaxCalls
    /\ \E m \in {UserRef(c) : c \in ScriptInputs} \cup Returned :
          LET r == recursive_script(Begin, m, MaxDepth)
          IN Commit(r, "recursive_script", m, r.val.ct, r.val)

\* interface_script(mod_interface, m)
InterfaceScript ==
    /\ calls < MaxCalls
    /\ \E m \in {UserRef(c) : c \in InterfaceInputs} \cup Returned :
       \E mod_interface \in Interfaces :
          LET r == interface_script(Begin, mod_interface, m, MaxDepth)
          IN Commit(r, "interface_script", m, r.val.ct, r.val)

\* create_script_module_for_tracing(c, stubs)
Trace ==
    /\ calls < MaxCalls
    /\ \E c \in TraceInputs :
       \E stubs \in {<<>>, <<make_stub_from_method(c, "forward")>>} :
          LET r == create_script_module_for_tracing(Begin, c, stubs, MaxDepth)
          IN Commit(r, "trace", UserRef(c), r.val.ct, r.val)

\* infer_raw_concrete_type(c)
Infer ==
    /\ calls < MaxCalls
    /\ \E c \in InferInputs :
          LET r == infer_raw_concrete_type(Begin, c, MaxDepth)
          IN Commit(R(r.st, r.err, 0), "infer", UserRef(c), 0, NoModule)

\* infer_methods_to_compile(c)
InferMethods ==
    /\ calls < MaxCalls
    /\ \E c \in MethodsInputs :
          LET r == infer_methods_to_compile(Begin, c)
          IN Commit(r, "infer_methods", UserRef(c), 0, NoModule)

Next ==
    \/ Resolve
    \/ RecursiveScript
    \/ InterfaceScript
    \/ Trace
    \/ Infer
    \/ InferMethods

Spec == Init /\ [][Next]_vars

---------------------------------------------------------------------------
\* Inference as a function of the module: infer_raw_concrete_type on "G"

\* values an instance attribute can hold
Atoms == {V(t) : t \in {"int", "NoneType", "function", "dtype", "dict", "Tensor"}}

VSeq(tag, items) == [tag |-> tag, items |-> items]

FlatValues ==
    {VSeq(tag, <<a>>) : tag \in {"list", "tuple"}, a \in Atoms}
      \cup {VSeq(tag, <<a, b>>) : tag \in {"list", "tuple"}, a, b \in {V("int"), V("dict")}}
      \cup {VList(<<>>)}

NestedValues ==
    {VList(<<x>>) : x \in FlatValues} \cup {VSeq("tuple", <<V("int"), x>>) : x \in FlatValues}

AttrValues == Atoms \cup FlatValues \cup NestedValues \cup {V("badfunction"), V("ScriptFunction")}

\* an entry of _parameters / _buffers: missing, None or a tensor
TensorSlots == {"absent", "None", "Tensor"}

Slot(name, s) == IF s = "absent" THEN <<>> ELSE << <<name, s>> >>

\* what __constants__ may declare: at most two of these names
DeclaredSets ==
    {cs \in SUBSET {"weight", "running", "sub", "_version", "c0", "n"} : Cardinality(cs) <= 2}

\* modules with every mix of parameter, buffer and submodule entries and
\* declared constant names; Module.__setattr__ and register_* keep the keys of
\* _parameters, _buffers, _modules and __dict__ disjoint
ClassifyInputs ==
    {[BaseComp EXCEPT !.cls = "Gen",
                      !.params = Slot("weight", w),
                      !.buffers = Slot("running", b) \o Slot("_initializing", i),
                      !.modules = IF m THEN << <<"sub", "L1">> >> ELSE <<>>,
                      !.hasConstants = TRUE,
                      !.constants0 = cs,
                      !.dict = [n |-> V("int")]]
       : w \in TensorSlots, b \in TensorSlots, i \in {"absent", "Tensor"},
         m \in BOOLEAN, cs \in DeclaredSets}

\* modules with one instance attribute k of any value, declared constant
\* through __constants__, through a Final annotation, or not at all
ConstantInputs ==
    {[BaseComp EXCEPT !.cls = "Gen",
                      !.hasConstants = (d = "constants"),
                      !.constants0 = IF d = "constants" THEN {"k"} ELSE {},
                      !.ann = IF d = "final" THEN [k |-> Ann("int", TRUE, FALSE)] ELSE NoMap,
                      !.dict = [k |-> v]]
       : v \in AttrValues, d \in {"constants", "final", "none"}}

InitInfer ==
    /\ instances \in {[[c \in CompIds |-> Instances(c)] EXCEPT !["G"] = g] :
                         g \in ClassifyInputs \cup ConstantInputs}
    /\ threads = NoThreads
    /\ InitRest

\* infer_raw_concrete_type(G)
InferGen ==
    /\ ~out.done
    /\ LET r == infer_raw_concrete_type(Begin, "G", MaxDepth)
       IN /\ CommitState(r)
          /\ out' = [done |-> TRUE, err |-> r.err, raw |-> r.val, warned |-> r.st.warned]
    /\ UNCHANGED <<ret, calls, roots, limit, instances, threads>>

NextInfer == InferGen

SpecInfer == InitInfer /\ [][NextInfer]_vars

---------------------------------------------------------------------------
\* The entry points under a recursion limit: a call nested deeper than limit
\* frames of get_or_create_concrete_type, recursive_script, interface_script
\* or create_constant_iterable_module raises RecursionError, as the
\* interpreter does when its stack is exhausted.

DepthInputs == {"L1", "P1", "PP", "ML", "PM", "PB", "CA", "CB"}

\* concrete_type_store.get_or_create_concrete_type(c) under recursion limit fuel
ResolveAt ==
    /\ calls < MaxCalls
    /\ \E c \in DepthInputs, fuel \in 1 .. MaxDepth :
          LET r == get_or_create_concrete_type(Begin, UserRef(c), fuel)
          IN CommitAt(r, "resolve", UserRef(c), r.val, NoModule, fuel)

\* recursive_script(c) under recursion limit fuel
RecursiveScriptAt ==
    /\ calls < MaxCalls
    /\ \E c \in DepthInputs, fuel \in 1 .. MaxDepth :
          LET r == recursive_script(Begin, UserRef(c), fuel)
          IN CommitAt(r, "recursive_script", UserRef(c), r.val.ct, r.val, fuel)

NextDepth ==
    \/ ResolveAt
    \/ RecursiveScriptAt

SpecDepth == Init /\ [][NextDepth]_vars

---------------------------------------------------------------------------
\* Two threads in get_or_create_concrete_type, on components without submodules.
\* A thread can be preempted between the statements of lines 270-286; the
\* steps are the inference of line 270, the lookup of lines 272-281 and the
\* return or insert of lines 281-286.

ThreadInputs == {"L1", "L2", "L3", "O", "F"}

InitThreads ==
    /\ instances = [c \in CompIds |-> Instances(c)]
    /\ threads \in {[NoThreads EXCEPT !.atomic = b] : b \in BOOLEAN}
    /\ InitRest

\* raw_concrete_type = infer_raw_concrete_type(nn_module)
TInfer(i) ==
    /\ threads.t[i].pc = "idle"
    /\ \E c \in ThreadInputs :
          LET r == infer_raw_concrete_type(Begin, c, MaxDepth)
          IN /\ r.err = NoErr
             /\ CommitState(r)
             /\ threads' = [threads EXCEPT !.t[i] =
                               [Idle EXCEPT !.pc = "inferred", !.arg = c, !.raw = r.val]]
    /\ UNCHANGED <<ret, calls, roots, limit, instances, out>>

\* lines 272-281: the key of the class, then the search of its list
TLookup(i) ==
    /\ threads.t[i].pc = "inferred"
    /\ threads.atomic => threads.owner = 0
    /\ LET raw == threads.t[i].raw
           st == EnsureKey(Begin, raw.py_class)
       IN /\ CommitState(R(st, NoErr, 0))
          /\ threads' = [threads EXCEPT
                !.owner = IF threads.atomic THEN i ELSE 0,
                !.t[i].pc = "searched",
                !.t[i].found = FindKnown(st.types, raw, st.type_store[raw.py_class], 1)]
    /\ UNCHANGED <<ret, calls, roots, limit, instances, out>>

\* lines 281-286: return the known type, or materialize and append
TInsert(i) ==
    /\ threads.t[i].pc = "searched"
    /\ LET raw == threads.t[i].raw
           r == Resolved(threads.t[i].arg, raw,
                         FoundOrNew(Begin, raw, threads.t[i].found))
       IN /\ CommitState(r)
          /\ threads' = [threads EXCEPT !.owner = 0,
                                        !.t[i].pc = "done",
                                        !.t[i].ct = r.val]
    /\ UNCHANGED <<ret, calls, roots, limit, instances, out>>

NextThreads ==
    \/ \E i \in Threads : TInfer(i)
    \/ \E i \in Threads : TLookup(i)
    \/ \E i \in Threads : TInsert(i)

SpecThreads == InitThreads /\ [][NextThreads]_vars

---------------------------------------------------------------------------
\* Two threads in create_script_module: after get_or_create_concrete_type
\* returned, init_fn has no submodule to script on these components, and the
\* thread goes through the statements of lines 390-394. With atomic the
\* callers hold their lock around these statements too.

\* TCheck without the test of methods_compiled
TCheckAlways(i) ==
    /\ threads.t[i].pc = "done"
    /\ threads.atomic => threads.owner = 0
    /\ threads' = [threads EXCEPT !.owner = IF threads.atomic THEN i ELSE 0,
                                  !.t[i].pc = "checked"]
    /\ UNCHANGED <<types, type_store, methods_compiled, submitted, jit_methods,
                   jit_count, constants, overloads, resolved, trace, warned,
                   ret, calls, roots, limit, instances, out>>

\* line 390: if concrete_type not in concrete_type_store.methods_compiled
TCheck(i) ==
    /\ threads.t[i].pc = "done"
    /\ threads.atomic => threads.owner = 0
    /\ threads' = [threads EXCEPT
          !.owner = IF threads.atomic /\ threads.t[i].ct \notin methods_compiled
                    THEN i ELSE 0,
          !.t[i].pc = IF threads.t[i].ct \in methods_compiled
                      THEN "skipped" ELSE "checked"]
    /\ UNCHANGED <<types, type_store, methods_compiled, submitted, jit_methods,
                   jit_count, constants, overloads, resolved, trace, warned,
                   ret, calls, roots, limit, instances, out>>

\* lines 391-392: create_methods_from_stubs and the emit hook
TCompile(i) ==
    /\ threads.t[i].pc = "checked"
    /\ LET ct == threads.t[i].ct
           rs == infer_methods_to_compile(Begin, threads.t[i].arg)
           bad == CompileFailures(types[ct], rs.val)
       IN /\ CommitState(R([rs.st EXCEPT
                  !.submitted[ct].all = @ + 1,
                  !.submitted[ct].ok = IF bad = {} THEN @ + 1 ELSE @,
                  !.jit_methods[ct] =
                      IF bad = {} THEN @ \cup {rs.val[k].name : k \in DOMAIN rs.val}
                      ELSE @], NoErr, 0))
          /\ threads' = [threads EXCEPT
                !.owner = IF bad = {} THEN @ ELSE 0,
                !.t[i].pc = IF bad = {} THEN "compiled" ELSE "failed"]
    /\ UNCHANGED <<ret, calls, roots, limit, instances, out>>

\* line 394: concrete_type_store.methods_compiled.add(concrete_type)
TMark(i) ==
    /\ threads.t[i].pc = "compiled"
    /\ methods_compiled' = methods_compiled \cup {threads.t[i].ct}
    /\ threads' = [threads EXCEPT !.owner = 0, !.t[i].pc = "marked"]
    /\ UNCHANGED <<types, type_store, submitted, jit_methods,
                   jit_count, constants, overloads, resolved, trace, warned,
                   ret, calls, roots, limit, instances, out>>

NextBuilds ==
    \/ NextThreads
    \/ \E i \in Threads : TCheck(i)
    \/ \E i \in Threads : TCompile(i)
    \/ \E i \in Threads : TMark(i)

SpecBuilds == InitThreads /\ [][NextBuilds]_vars

---------------------------------------------------------------------------
\* Properties

BuildOps == {"recursive_script", "interface_script"}

\* the last call was a build of a not yet scripted component
IsBuild(r) == r.op \in BuildOps /\ ~r.script

Stored(cls) == IF cls \in DOMAIN type_store THEN Range(type_store[cls]) ELSE {}

\* the entries of the list of cls that are structurally equal to raw
EqualEntries(cls, raw) ==
    IF cls \in DOMAIN type_store
    THEN {i \in DOMAIN type_store[cls] : Equals(types, raw, types[type_store[cls][i]])}
    ELSE {}

SharePair(a, b) ==
    /\ resolved[a].done
    /\ resolved[b].done
    /\ Comp(a).cls = Comp(b).cls
    /\ Equals(types, resolved[a].raw, resolved[b].raw)

SharedOnce ==
    \A a, b \in CompIds :
        SharePair(a, b) =>
            /\ resolved[a].ct = resolved[b].ct
            /\ a # b => ~(resolved[a].created /\ resolved[b].created)
            /\ Cardinality(EqualEntries(Comp(a).cls, resolved[a].raw)) = 1

\* the step resolved component b, whose raw type equals that of a, resolved before
LaterResolve(a, b) ==
    /\ ret'.op = "resolve" /\ ~ret'.script /\ ret'.err = NoErr /\ ret'.arg = b
    /\ resolved[a].done
    /\ Comp(a).cls = Comp(b).cls
    /\ Equals(types', resolved[a].raw, resolved'[b].raw)

\* C1: components of one class whose raw concrete types are structurally equal
\* resolve to the same object, the entry the earlier call stored: the later
\* call materializes no new type and appends nothing to the list of the class,
\* which holds exactly one entry of that structure.
C1_EqualRawTypesShareOneType ==
    [][ /\ SharedOnce'
        /\ \A a, b \in CompIds :
              LaterResolve(a, b) =>
                  /\ ret'.ct = resolved[a].ct
                  /\ resolved'[b].ct = resolved[a].ct
                  /\ ~resolved'[b].created
                  /\ Len(types') = Len(types)
                  /\ type_store' = type_store
      ]_vars

C1_Witness ==
    \E a, b \in CompIds :
        /\ a # b
        /\ SharePair(a, b)
        /\ resolved[a].created
        /\ ret.op = "resolve" /\ ret.arg = b /\ ret.ct = resolved[a].ct
        /\ ret.ct \in Stored(Comp(b).cls)

\* batches submitted for type t before the step (0 for a type the step creates)
Sub(t) == IF t <= Len(submitted) THEN submitted[t] ELSE [all |-> 0, ok |-> 0]

\* C2: a type whose methods are compiled gets no further batch, the build that
\* marks it submits exactly one, and every successful build leaves its type marked.
C2_BatchSubmittedOncePerType ==
    [][ /\ \A t \in 1 .. Len(types') :
              /\ t \in methods_compiled => submitted'[t] = submitted[t]
              /\ t \in methods_compiled' \ methods_compiled =>
                    /\ submitted'[t].all = Sub(t).all + 1
                    /\ submitted'[t].ok = 1
        /\ (IsBuild(ret') /\ ret'.err = NoErr) => ret'.ct \in methods_compiled'
      ]_vars

\* a second module of an already compiled type was built without a new batch
C2_Witness ==
    /\ IsBuild(ret) /\ ret.err = NoErr /\ ret.arg = "L2"
    /\ \A i \in DOMAIN trace : trace[i].ev # "submit"
    /\ submitted[ret.ct].all = 1
    /\ resolved["L1"].ct = ret.ct

Poisoned == {t \in DOMAIN types : types[t].poisoned}

\* C3: no poisoned type is in the list of any class, and no resolve of a
\* component returns one.
C3_PoisonedNeverCachedNorReturned ==
    /\ \A cls \in DOMAIN type_store : Range(type_store[cls]) \cap Poisoned = {}
    /\ \A c \in CompIds : resolved[c].done => resolved[c].ct \notin Poisoned
    /\ (ret.op = "resolve" /\ ~ret.script /\ ret.err = NoErr) => ret.ct \notin Poisoned

\* a traced build whose poisoned type is structurally equal to a cached entry
C3_Witness ==
    /\ ret.op = "trace" /\ ret.err = NoErr
    /\ ret.ct \in Poisoned
    /\ EqualEntries(types[ret.ct].py_class, types[ret.ct]) # {}

\* C4 as stated: no poisoned type is read from or written into type_store or
\* methods_compiled.
C4_PoisonedNowhereInTypeCache ==
    /\ \A cls \in DOMAIN type_store : Range(type_store[cls]) \cap Poisoned = {}
    /\ methods_compiled \cap Poisoned = {}
    /\ \A i \in DOMAIN trace : trace[i].ev \in {"submit", "mark"} => trace[i].ct \notin Poisoned

\* C4 amended: a poisoned type is in the list of no class, but the traced build
\* tests methods_compiled for it, submits its batch once and adds it.
C4_PoisonedOnlyInMethodsCompiled ==
    /\ \A cls \in DOMAIN type_store : Range(type_store[cls]) \cap Poisoned = {}
    /\ (ret.op = "trace" /\ ret.err = NoErr) =>
          /\ ret.ct \in Poisoned \cap methods_compiled
          /\ submitted[ret.ct] = [all |-> 1, ok |-> 1]
          /\ \E i \in DOMAIN trace : trace[i].ev = "mark" /\ trace[i].ct = ret.ct

C4_Witness ==
    /\ ret.op = "trace" /\ ret.err = NoErr
    /\ ret.ct \in Poisoned \cap methods_compiled
    /\ Len(types) > 1

\* C5: a successfully compiled container of structurally identical leaves has
\* one slot per leaf, all slots of one leaf type, whose batch was submitted once.
C5_ContainerLeavesShareOneType ==
    (IsBuild(ret) /\ ret.err = NoErr /\ ret.arg = "ML") =>
        /\ Len(ret.mod.modules) = Len(Comp("ML").modules)
        /\ \A i, j \in DOMAIN ret.mod.modules :
              ret.mod.modules[i][2].ct = ret.mod.modules[j][2].ct
        /\ \A i \in DOMAIN ret.mod.modules :
              /\ ret.mod.modules[i][1] = Comp("ML").modules[i][1]
              /\ ret.mod.modules[i][2].py = Comp("ML").modules[i][2]
              /\ ret.mod.modules[i][2].ct \in methods_compiled
              /\ submitted[ret.mod.modules[i][2].ct] = [all |-> 1, ok |-> 1]

C5_Witness ==
    /\ IsBuild(ret) /\ ret.err = NoErr /\ ret.arg = "ML"
    /\ Len(ret.mod.modules) = 3
    /\ Cardinality({trace[i].who : i \in {j \in DOMAIN trace : trace[j].ev = "done"}}) = 4
    /\ Cardinality({i \in DOMAIN trace : trace[i].ev = "submit" /\ trace[i].who # "ML"}) = 1

DifferPair(a, b) ==
    /\ resolved[a].done
    /\ resolved[b].done
    /\ Comp(a).cls = Comp(b).cls
    /\ ~Equals(types, resolved[a].raw, resolved[b].raw)

\* C6: components of one class whose raw concrete types differ resolve to two
\* distinct types, both in the list of the class; each type built has had
\* exactly one batch compiled.
C6_DifferentRawTypesGetDistinctTypes ==
    \A a, b \in CompIds :
        DifferPair(a, b) =>
            /\ resolved[a].ct # resolved[b].ct
            /\ {resolved[a].ct, resolved[b].ct} \subseteq Stored(Comp(a).cls)
            /\ \A t \in {resolved[a].ct, resolved[b].ct} :
                  t \in methods_compiled => submitted[t].ok = 1
            /\ (IsBuild(ret) /\ ret.err = NoErr /\ ret.arg = a) =>
                  /\ ret.ct = resolved[a].ct
                  /\ ret.ct \in methods_compiled

C6_Witness ==
    /\ DifferPair("L1", "L3")
    /\ {resolved["L1"].ct, resolved["L3"].ct} \subseteq methods_compiled
    /\ submitted[resolved["L1"].ct].all = 1
    /\ submitted[resolved["L3"].ct].all = 1
    /\ IsBuild(ret) /\ ret.err = NoErr /\ ret.arg = "L3"

\* C7 as stated: a call of infer_raw_concrete_type leaves the component's
\* __constants__ and __overloads__ as they were.
C7_InferenceMutatesNothing ==
    [][ret'.op = "infer" => (constants' = constants /\ overloads' = overloads)]_vars

GrowsByAppending ==
    /\ \A cls \in DOMAIN type_store :
          /\ cls \in DOMAIN type_store'
          /\ Len(type_store[cls]) <= Len(type_store'[cls])
          /\ SubSeq(type_store'[cls], 1, Len(type_store[cls])) = type_store[cls]
    /\ methods_compiled \subseteq methods_compiled'

\* C8 as stated: a build that fails leaves type_store and methods_compiled as
\* they were and returns no module.
C8_FailedBuildLeavesCacheUnchanged ==
    [][(IsBuild(ret') /\ ret'.err # NoErr) =>
          /\ type_store' = type_store
          /\ methods_compiled' = methods_compiled
          /\ ret'.mod = NoModule
      ]_vars

\* C8 amended: a build that fails returns no module and does not mark the type
\* whose batch failed, but what it resolved and built before the failure stays:
\* lists only grow by appending and methods_compiled only gains elements.
C8_FailedBuildReturnsNothingKeepsGrowth ==
    [][(IsBuild(ret') /\ ret'.err # NoErr) =>
          /\ ret'.mod = NoModule
          /\ ret'.ct = 0
          /\ GrowsByAppending
          /\ ret'.err.kind = "CompilationError" =>
                /\ trace'[Len(trace')].ev = "submit"
                /\ trace'[Len(trace')].ct \notin methods_compiled'
                /\ \E cls \in DOMAIN type_store' :
                      trace'[Len(trace')].ct \in Range(type_store'[cls])
      ]_vars

\* a build that failed in a nested submodule's compilation after growing the cache
C8_Witness ==
    /\ IsBuild(ret) /\ ret.arg = "PB" /\ ret.err.kind = "CompilationError"
    /\ ret.mod = NoModule
    /\ "Net" \in DOMAIN type_store /\ "Bad" \in DOMAIN type_store
    /\ type_store["Bad"] # <<>>
    /\ resolved["B"].ct \notin methods_compiled

\* the uninitialized components a call reached
ReachedUninitialized == {trace[i].who : i \in DOMAIN trace} \cap {c \in CompIds : ~IsInitialized(c)}

\* C9 as stated: a build that reaches an uninitialized component fails with
\* InitializationError naming its class, and no inference runs on it unchecked.
C9_UninitializedAlwaysInitializationError ==
    IsBuild(ret) =>
        \A u \in ReachedUninitialized :
            /\ ret.err = Err("InitializationError", Comp(u).cls)
            /\ \A i \in DOMAIN trace :
                  (trace[i].ev = "infer" /\ trace[i].who = u) =>
                      \E j \in 1 .. i - 1 : trace[j].ev = "check" /\ trace[j].who = u

\* C10: every list of type_store only grows by appending at its end and
\* methods_compiled only gains elements, whatever the call.
C10_TypeCacheAppendOnly == [][GrowsByAppending]_vars

C10_Witness ==
    /\ \E cls \in DOMAIN type_store : Len(type_store[cls]) >= 2
    /\ Cardinality(methods_compiled) >= 2

---------------------------------------------------------------------------
\* Properties of recompilation and of repeated method inference

\* C12: a module built from a user component carries the concrete type
\* resolved for the component, and handing a compiled module back is a no-op:
\* resolve returns the type it carries without running inference,
\* recursive_script and interface_script return the module itself, and the
\* types, the type store and the set of compiled types stay as they were.
C12_RecompileIsNoOp ==
    [][ /\ (/\ ret'.op \in BuildOps /\ ~ret'.script /\ ret'.err = NoErr
            /\ Comp(ret'.arg).cls \notin ContainerClasses)
              => /\ ret'.mod.ct # 0
                 /\ ret'.mod.ct = resolved'[ret'.arg].ct
        /\ ret'.script =>
              /\ ret'.err = NoErr
              /\ ret'.op = "resolve" => ret'.ct = ret.mod.ct
              /\ ret'.op \in BuildOps => ret'.mod = ret.mod
              /\ trace' = <<>>
              /\ types' = types
              /\ type_store' = type_store
              /\ methods_compiled' = methods_compiled
              /\ submitted' = submitted
      ]_vars

\* threads i and j have returned from resolving components of one class whose
\* raw types are structurally equal
SameShape(i, j) ==
    /\ threads.t[i].pc = "done"
    /\ threads.t[j].pc = "done"
    /\ threads.t[i].raw.py_class = threads.t[j].raw.py_class
    /\ Equals(types, threads.t[i].raw, threads.t[j].raw)

\* C11: when the lookup and the insert of a resolve run atomically, two
\* threads that resolved structurally equal components of one class hold the
\* same type, and the list of the class has exactly one entry of that shape.
\* Without the atomicity both threads can miss the lookup, and then each has
\* materialized and appended a type of its own: the list has two entries of
\* the shape.
C11_AtomicLookupInsertSharesOneType ==
    \A i, j \in Threads :
        SameShape(i, j) =>
            /\ threads.atomic =>
                  /\ threads.t[i].ct = threads.t[j].ct
                  /\ Cardinality(EqualEntries(threads.t[i].raw.py_class,
                                              threads.t[i].raw)) = 1
            /\ (i # j /\ threads.t[i].found = 0 /\ threads.t[j].found = 0) =>
                  /\ ~threads.atomic
                  /\ threads.t[i].ct # threads.t[j].ct
                  /\ Cardinality(EqualEntries(threads.t[i].raw.py_class,
                                              threads.t[i].raw)) = 2

\* both threads missed the lookup and each appended a type of its own
C11_Witness ==
    /\ ~threads.atomic
    /\ SameShape(1, 2)
    /\ threads.t[1].found = 0 /\ threads.t[2].found = 0
    /\ threads.t[1].ct # threads.t[2].ct
    /\ Cardinality(EqualEntries(threads.t[1].raw.py_class, threads.t[1].raw)) = 2

\* under atomicity the second thread found the type of the first
C11_AtomicWitness ==
    /\ threads.atomic
    /\ SameShape(1, 2)
    /\ threads.t[1].arg # threads.t[2].arg
    /\ threads.t[1].ct = threads.t[2].ct
    /\ threads.t[2].found # 0

RECURSIVE Depth(_, _)
\* the nesting depth of the submodule relation below c, counted up to k
Depth(c, k) ==
    IF k = 0 THEN 0
    ELSE LET below == {Depth(Comp(c).modules[i][2], k - 1) : i \in DOMAIN Comp(c).modules}
         IN 1 + (IF below = {} THEN 0 ELSE CHOOSE d \in below : \A e \in below : e <= d)

\* a path of submodules below c comes back to a component it passed
Cyclic(c) == Depth(c, Cardinality(CompIds) + 1) > Cardinality(CompIds)

Height(c) == Depth(c, Cardinality(CompIds))

InferEvents(who) == {k \in DOMAIN trace : trace[k].ev = "infer" /\ trace[k].who = who}

\* C19: on a component whose submodule relation is acyclic, resolve and build
\* return or fail within as many nested calls as the tree is deep: under a
\* recursion limit of at least the nesting depth they never exhaust it, they
\* end with a type or module or with an error of the component, and a limit
\* below the nesting depth is exhausted.
C19_AcyclicTerminatesWithinDepth ==
    (ret.op \in {"resolve", "recursive_script"} /\ ~Cyclic(ret.arg)) =>
        /\ limit >= Height(ret.arg) =>
              /\ ret.err.kind # "RecursionError"
              /\ ret.err = NoErr => ret.ct # 0
        /\ limit < Height(ret.arg) => ret.err.kind = "RecursionError"

\* a tree of depth three resolved under limit three
C19_Witness ==
    /\ ret.op = "recursive_script" /\ ret.arg = "PP" /\ ret.err = NoErr
    /\ Height("PP") = 3 /\ limit = 3
    /\ ret.mod.ct # 0

\* C20: on a component whose submodule relation has a cycle resolve recurses
\* until the recursion limit stops it, whatever the limit: it returns no type,
\* raises no error naming a cycle, caches nothing, and every re-entry on a
\* component runs its inference again.
C20_CycleRecursesWithoutBound ==
    (ret.op = "resolve" /\ Cyclic(ret.arg)) =>
        /\ ret.err.kind = "RecursionError"
        /\ ret.ct = 0
        /\ \A c \in {"CA", "CB"} : ~resolved[c].done
        /\ Cardinality(InferEvents("CA")) + Cardinality(InferEvents("CB")) = limit
        /\ Cardinality(InferEvents(ret.arg)) = (limit + 1) \div 2

\* inference ran twice on A and twice on B
C20_Witness ==
    /\ ret.op = "resolve" /\ ret.arg = "CA"
    /\ limit = 4
    /\ Cardinality(InferEvents("CA")) = 2
    /\ Cardinality(InferEvents("CB")) = 2
    /\ ret.err = Err("RecursionError", "CA")

\* C13: a later call of infer_methods_to_compile on a component returns the
\* method names the earlier call returned, in the same order, whatever ran in
\* between; the overload map the earlier call wrote back is what the later call
\* writes again.
C13_MethodInferenceRepeatable ==
    [][ (/\ ret'.op = "infer_methods" /\ ret'.err = NoErr
         /\ roots[ret'.arg].n > 0)
          => /\ roots'[ret'.arg].names = roots[ret'.arg].names
             /\ overloads'[ret'.arg].present
             /\ overloads'[ret'.arg].map = overloads[ret'.arg].map
      ]_vars

\* the second call on the component with overloaded forward, which the first
\* call gave an overload map
C13_Witness ==
    /\ ret.op = "infer_methods" /\ ret.arg = "O" /\ ret.err = NoErr
    /\ roots["O"] = [n |-> 2, names |-> <<"forward__0", "forward__1">>]
    /\ overloads["O"].map = [forward |-> <<"forward__0", "forward__1">>]

\* a traced module, whose type is in no list of the store, was handed back
C12_Witness ==
    /\ ret.script /\ ret.op = "resolve" /\ ret.err = NoErr
    /\ ret.ct # 0
    /\ types[ret.ct].poisoned
    /\ \A cls \in DOMAIN type_store : ret.ct \notin Range(type_store[cls])

---------------------------------------------------------------------------
\* Properties of inference on the instance "G"

AttrNames(raw) == {raw.attributes[i].name : i \in DOMAIN raw.attributes}

ModuleNames(raw) == {raw.modules[i].name : i \in DOMAIN raw.modules}

\* names whose entry in _parameters or _buffers is None
NullSlots(m) ==
    {m.params[i][1] : i \in {j \in DOMAIN m.params : m.params[j][2] = "None"}}
      \cup {m.buffers[i][1] : i \in {j \in DOMAIN m.buffers : m.buffers[j][2] = "None"}}

\* names declared constant: listed in __constants__ or annotated Final
Declared(m) == m.constants0 \cup {n \in DOMAIN m.ann : m.ann[n].final}

C15_AbsentConstantOnlyWarns ==
    out.done =>
        \A x \in Declared(Comp("G")) :
            ~HasAttr("G", x) =>
                /\ <<"G", x>> \in out.warned
                /\ out.err = NoErr
                /\ x \notin DOMAIN out.raw.constants

C15_Witness ==
    /\ out.done
    /\ Declared(Comp("G")) = {"c0", "n"}
    /\ out.warned = {<<"G", "c0">>}
    /\ DOMAIN out.raw.constants = {"n"}

RECURSIVE Accepted(_)
\* constant-representable values: the base types, and lists or tuples of
\* constant-representable values
Accepted(v) ==
    \/ v.tag \in {"bool", "float", "int", "str", "NoneType", "function",
                  "device", "layout", "dtype"}
    \/ /\ v.tag \in {"list", "tuple"}
       /\ \A i \in DOMAIN v.items : Accepted(v.items[i])

RECURSIVE RejectedTypes(_)
\* the types of the values, at any depth of v, that are not constant-representable
RejectedTypes(v) ==
    IF v.tag \in {"list", "tuple"}
    THEN UNION {RejectedTypes(v.items[i]) : i \in DOMAIN v.items}
    ELSE IF Accepted(v) THEN {} ELSE {v.tag}

DeclaredK == "k" \in DOMAIN Comp("G").dict /\ "k" \in Declared(Comp("G"))

NoDuplicates(seq) == \A i, j \in DOMAIN seq : i # j => seq[i].name # seq[j].name

\* the name sets of the categories of a concrete type; parameters and the other
\* attributes share the attribute list
Categories(raw) ==
    <<AttrNames(raw), ModuleNames(raw), DOMAIN raw.constants,
      DOMAIN raw.function_attributes, DOMAIN raw.failed_attributes>>

C18_BlacklistedNamesNowhere ==
    out.done =>
        \A i \in 1 .. 5 : Categories(out.raw)[i] \cap (blacklist \cup DunderNames) = {}

---------------------------------------------------------------------------
\* Properties of builds

JitTypes(heap) == {heap[k].jit_type : k \in DOMAIN heap}

\* C21: a traced build that returns a module made a type of its own: a
\* poisoned object created by this call, with a JIT type no earlier type has,
\* and the call submitted one method batch for it. Two traced builds of one
\* component so return two distinct types, each with its batch.
C21_TracedBuildUsesFreshType ==
    [][ (ret'.op = "trace" /\ ret'.err = NoErr) =>
          /\ ret'.ct \in DOMAIN types' \ DOMAIN types
          /\ types'[ret'.ct].poisoned
          /\ types'[ret'.ct].jit_type \notin JitTypes(types)
          /\ ret'.mod.ct = ret'.ct
          /\ submitted'[ret'.ct] = [all |-> 1, ok |-> 1]
          /\ Cardinality({i \in DOMAIN trace' :
                 trace'[i].ev = "submit" /\ trace'[i].ct = ret'.ct}) = 1
      ]_vars

\* the leaf L1 traced twice: two poisoned types of one structure, a batch each
C21_Witness ==
    /\ calls = 2 /\ ret.op = "trace" /\ ret.arg = "L1" /\ ret.err = NoErr
    /\ \E a \in Poisoned :
          /\ a # ret.ct
          /\ types[a].py_class = "Leaf"
          /\ Equals(types, types[a], types[ret.ct])
          /\ types[a].jit_type # types[ret.ct].jit_type
          /\ submitted[a].all = 1 /\ submitted[ret.ct].all = 1

Event(ev, who, ct) == [ev |-> ev, who |-> who, ct |-> ct]

\* the positions before m at which a build of component c began
Starts(c, m) ==
    {a \in 1 .. m - 1 : trace[a].ev \in {"attributes", "iterable"} /\ trace[a].who = c}

\* the build that marks its type at position m of the trace went through its
\* steps in order
MarkOrdered(m) ==
    LET c == trace[m].who
        ct == trace[m].ct
    IN /\ m > 3
       /\ trace[m - 1] = Event("hook", c, ct)
       /\ trace[m - 2] = Event("submit", c, ct)
       /\ trace[m - 3] = Event("concrete_type", c, ct)
       /\ Starts(c, m) # {}
       /\ LET a == CHOOSE x \in Starts(c, m) : \A y \in Starts(c, m) : y <= x
          IN \A i \in DOMAIN Comp(c).modules :
                \E d \in a + 1 .. m - 4 :
                    /\ trace[d].ev = "done"
                    /\ trace[d].who = Comp(c).modules[i][2]
                    /\ trace[d].ct \in methods_compiled
                    /\ \E g \in d + 1 .. m - 4 :
                          trace[g].ev \in {"register_module", "infer"} /\ trace[g].who = c

\* C22: the steps of a build are ordered: after its attributes every
\* submodule is built to the end, its type's methods compiled, then the
\* concrete type is recorded, the batch submitted, the hook run and the type
\* marked; no type is marked before every submodule of the marking component
\* is built.
C22_BuildStepsOrdered ==
    \A m \in DOMAIN trace : trace[m].ev = "mark" => MarkOrdered(m)

\* three nested builds: the leaf marked before the inner net, that before the outer
C22_Witness ==
    /\ ret.op = "recursive_script" /\ ret.arg = "PP" /\ ret.err = NoErr
    /\ \E l, p, q \in DOMAIN trace :
          /\ l < p /\ p < q
          /\ trace[l].ev = "mark" /\ trace[l].who = "L1"
          /\ trace[p].ev = "mark" /\ trace[p].who = "P1"
          /\ trace[q].ev = "mark" /\ trace[q].who = "PP"

---------------------------------------------------------------------------
\* Properties of the selection of compilation roots

\* the base names of the overload sets of component c
OverloadBases(c) == DOMAIN get_overload_name_mapping(c) \cup DOMAIN overloads[c].map

\* C23 as stated: under the default rule and under the interface rule no
\* regular stub is selected for a base name of an overload set; the regular
\* stubs of a build are the ones overlaid on the module it returns.
C23_NoRegularStubForOverloadBase ==
    (IsBuild(ret) /\ ret.err = NoErr) => ret.mod.overlay \cap OverloadBases(ret.arg) = {}

\* the names of the overload stubs of component c
MangledNames(c) ==
    UNION {Range(get_overload_name_mapping(c)[b]) : b \in DOMAIN get_overload_name_mapping(c)}

\* the regular method names infer_methods_to_compile returned last for c
RegularRoots(c) == SelectSeq(roots[c].names, LAMBDA n : n \notin MangledNames(c))

Exported(c) == {n \in DOMAIN Methods(Comp(c).cls) : Methods(Comp(c).cls)[n].modifier = "EXPORT"}

\* forward overridden by the class of c and not marked ignored or unused
ForwardSelected(c) ==
    /\ "forward" \in DOMAIN Methods(Comp(c).cls)
    /\ Methods(Comp(c).cls)["forward"].modifier \notin {"IGNORE", "UNUSED"}

\* forward first if selected, then the exported names in the order of dir(),
\* each name once
DefaultRule(c) ==
    IF ForwardSelected(c)
    THEN <<"forward">> \o SeqOfSet(NameOrder, Exported(c) \ {"forward"})
    ELSE SeqOfSet(NameOrder, Exported(c))

\* C24 as stated: the regular names selected under the default rule are
\* forward, iff overridden and not ignored or unused, then the exported names
\* in enumeration order, each once.
C24_DefaultRuleSelection ==
    \A c \in CompIds : roots[c].n > 0 => RegularRoots(c) = DefaultRule(c)

\* C24 amended: ... of these names, those that are no base name of an
\* overload set of the component.
C24_DefaultRuleSelectionButOverloaded ==
    \A c \in CompIds :
        roots[c].n > 0 =>
            RegularRoots(c) = SelectSeq(DefaultRule(c), LAMBDA n : n \notin OverloadBases(c))

\* an exported forward, listed once and first, before the exported names that
\* sort before it
C24_Witness ==
    /\ ret.op = "infer_methods" /\ ret.arg = "E" /\ ret.err = NoErr
    /\ roots["E"].names = <<"forward", "act", "helper">>

---------------------------------------------------------------------------
\* Properties of the constants loop on the instance "G"

\* the names of the non-null parameters and buffers and of the submodules of m
Classified(m) == NonNull(m.params) \cup NonNull(m.buffers) \cup Keys(m.modules)

\* C25: a declared constant name that is a non-null parameter, a non-null
\* buffer or a submodule keeps that classification and is no constant; its
\* value, which is not constant-representable, is not validated, and no
\* warning is given for it.
C25_ClassifiedNameSkippedSilently ==
    out.done =>
        \A x \in Declared(Comp("G")) \cap Classified(Comp("G")) :
            /\ out.err = NoErr
            /\ x \notin DOMAIN out.raw.constants
            /\ x \in Keys(Comp("G").modules) <=> x \in ModuleNames(out.raw)
            /\ x \notin Keys(Comp("G").modules) <=> x \in AttrNames(out.raw)
            /\ \A i \in DOMAIN out.raw.attributes :
                  out.raw.attributes[i].name = x =>
                      out.raw.attributes[i].is_param = (x \in Keys(Comp("G").params))
            /\ <<"G", x>> \notin out.warned

\* a parameter and a buffer, both tensors, both declared constant
C25_Witness ==
    /\ out.done /\ out.err = NoErr
    /\ Declared(Comp("G")) = {"weight", "running"}
    /\ Classified(Comp("G")) = {"weight", "running", "_initializing"}
    /\ {"weight", "running"} \subseteq AttrNames(out.raw)
    /\ DOMAIN out.raw.constants = {}
    /\ out.warned = {}

---------------------------------------------------------------------------
\* Properties of the compile step across builds

\* the names of the stubs the last build was given
StubNames ==
    IF ret.op = "interface_script"
    THEN Range(getMethodNames("IFace"))
    ELSE IF Comp(ret.arg).cls \in ContainerClasses THEN {}
    ELSE {infer_methods_to_compile(Begin, ret.arg).val[i].name :
             i \in DOMAIN infer_methods_to_compile(Begin, ret.arg).val}

\* C26 as stated: after a successful build every stub of its list is a
\* compiled method of the component's type, whatever list an earlier build
\* of the type was given, and the overlay finds a method for every genuine
\* stub.
C26_EveryStubCompiledForItsType ==
    IsBuild(ret) =>
        /\ ret.err.kind # "RuntimeError"
        /\ ret.err = NoErr => StubNames \subseteq jit_methods[ret.ct]

---------------------------------------------------------------------------
\* Properties of the type store

\* C27: every entry of the list of a class is a concrete type of that class
\* that has its JIT type, and no two entries of a list are structurally equal.
C27_StoreEntriesWellFormed ==
    \A cls \in DOMAIN type_store :
        \A i \in DOMAIN type_store[cls] :
            /\ type_store[cls][i] \in DOMAIN types
            /\ types[type_store[cls][i]].py_class = cls
            /\ types[type_store[cls][i]].jit_type # 0
            /\ \A j \in DOMAIN type_store[cls] :
                  j # i => ~Equals(types, types[type_store[cls][i]],
                                   types[type_store[cls][j]])

\* two leaves of different structure, resolved one after the other
C27_Witness ==
    /\ ret.op = "resolve" /\ ret.err = NoErr
    /\ "Leaf" \in DOMAIN type_store
    /\ Len(type_store["Leaf"]) = 2
    /\ types[type_store["Leaf"][1]].jit_type # types[type_store["Leaf"][2]].jit_type
    /\ types[type_store["Leaf"][1]].attributes # types[type_store["Leaf"][2]].attributes

---------------------------------------------------------------------------
\* Properties of failed compilation

\* the step ended in the failure of the batch submitted for type ct
BatchFailed(ct) ==
    /\ ret'.err.kind = "CompilationError"
    /\ trace' # <<>>
    /\ trace'[Len(trace')].ev = "submit"
    /\ trace'[Len(trace')].ct = ct

\* the submissions for type ct during the step
Submits(ct) == {k \in DOMAIN trace' : trace'[k].ev = "submit" /\ trace'[k].ct = ct}

\* C28: a type whose batch fails to compile is not added to methods_compiled
\* and stays in the list of its class; a later build that gets the type from
\* the store finds it unmarked and submits its batch for it again.
C28_FailedTypeIsCompiledAgain ==
    [][ \A ct \in DOMAIN types' :
          /\ BatchFailed(ct) =>
                /\ ct \notin methods_compiled'
                /\ ~types'[ct].poisoned => ct \in Range(type_store'[types'[ct].py_class])
                /\ submitted'[ct].ok = 0
          /\ (/\ ct \in DOMAIN types /\ ct \notin methods_compiled
              /\ \E k \in DOMAIN trace' :
                    trace'[k].ev = "concrete_type" /\ trace'[k].ct = ct)
                => /\ Submits(ct) # {}
                   /\ submitted'[ct].all = submitted[ct].all + Cardinality(Submits(ct))
      ]_vars

\* the module whose forward does not compile, built twice: two batches for
\* its one type
C28_Witness ==
    /\ ret.op = "recursive_script" /\ ret.arg = "B" /\ ret.err.kind = "CompilationError"
    /\ resolved["B"].done /\ ~resolved["B"].created
    /\ resolved["B"].ct \in Stored("Bad") \ methods_compiled
    /\ submitted[resolved["B"].ct] = [all |-> 2, ok |-> 0]

---------------------------------------------------------------------------
\* Properties of two threads in the compile step

\* thread i passed the test of line 390 and submitted its batch
Submitted(i) == threads.t[i].pc \in {"compiled", "marked"}

\* C29: without synchronization two threads that build components of one
\* type can both pass the test of line 390 before either marks the type, and
\* then the batch of the type is submitted twice; with the statements of
\* lines 390-394 serialized a type gets one batch.
C29_CompileStepNotAtomic ==
    /\ threads.atomic => \A ct \in DOMAIN types : submitted[ct].all <= 1
    /\ \A i, j \in Threads :
          (i # j /\ Submitted(i) /\ Submitted(j) /\ threads.t[i].ct = threads.t[j].ct)
            => /\ ~threads.atomic
               /\ submitted[threads.t[i].ct].all = 2

\* both threads went from the test to the mark on the type L1 and L2 share
C29_Witness ==
    /\ ~threads.atomic
    /\ threads.t[1].arg = "L1" /\ threads.t[2].arg = "L2"
    /\ threads.t[1].pc = "marked" /\ threads.t[2].pc = "marked"
    /\ threads.t[1].ct = threads.t[2].ct
    /\ threads.t[2].found # 0
    /\ submitted[threads.t[1].ct] = [all |-> 2, ok |-> 2]

---------------------------------------------------------------------------
\* Properties of the resolve of containers

\* the members of the container ML
Members == {Comp("ML").modules[i][2] : i \in DOMAIN Comp("ML").modules}

\* the builds of component c that the last call completed
Builds(c) == {d \in DOMAIN trace : trace[d].ev = "done" /\ trace[d].who = c}

\* the batches the last call submitted for type ct
Batches(ct) == {k \in DOMAIN trace : trace[k].ev = "submit" /\ trace[k].ct = ct}

\* C30: the resolve of a container, at top level or as the submodule of a
\* component under inference, builds the container and each of its members,
\* whose types have their methods compiled when it returns; the build of the
\* parent then builds the container and its members a second time, and no
\* member's type gets a second batch.
C30_ContainerResolveBuilds ==
    /\ (ret.op = "resolve" /\ ~ret.script /\ ret.err = NoErr /\ ret.arg \in {"ML", "PM"}) =>
          /\ Cardinality(Builds("ML")) = 1
          /\ \A l \in Members :
                /\ Cardinality(Builds(l)) = 1
                /\ \A d \in Builds(l) :
                      /\ trace[d].ct \in methods_compiled
                      /\ submitted[trace[d].ct] = [all |-> 1, ok |-> 1]
    /\ (ret.op = "recursive_script" /\ ~ret.script /\ ret.err = NoErr /\ ret.arg = "PM") =>
          /\ Cardinality(Builds("ML")) = 2
          /\ \A l \in Members :
                /\ Cardinality(Builds(l)) = 2
                /\ \A d \in Builds(l) :
                      /\ Cardinality(Batches(trace[d].ct)) <= 1
                      /\ submitted[trace[d].ct] = [all |-> 1, ok |-> 1]

\* the first call builds the parent of the container: the members' batch is
\* submitted during the resolve, before the parent's attributes are registered
C30_Witness ==
    /\ calls = 1
    /\ ret.op = "recursive_script" /\ ~ret.script /\ ret.err = NoErr /\ ret.arg = "PM"
    /\ Cardinality(Builds("L1")) = 2
    /\ \E k, a \in DOMAIN trace :
          /\ trace[k].ev = "submit" /\ trace[k].who \in Members
          /\ trace[a].ev = "attributes" /\ trace[a].who = "PM"
          /\ k < a

====
